---------------------------- MODULE Spec2Model ----------------------------
(***************************************************************************)
(* A model of the riichi-mahjong hand evaluator: the hand container and    *)
(* its parser (hand.rs), the shanten analyzer (hand_info/hand_analyzer.rs) *)
(* and the yaku predicates run by winning_hand/checker.rs.                 *)
(*                                                                         *)
(* A text is a sequence of one-character strings, a tile is its index      *)
(* 0..33, a tile summary is a function 0..33 -> Nat, a block is the tuple  *)
(* of its tiles, Option<Tile> is the empty or the one-element sequence.    *)
(***************************************************************************)
EXTENDS Integers, Sequences, FiniteSets, TLC

(***************************************************************************)
(* Tiles (tile.rs is not part of the sources at hand: the indices are the  *)
(* ones the specification's data model gives).                             *)
(***************************************************************************)
LEN == 34
M1 == 0
M7 == 6
M9 == 8
P1 == 9
P7 == 15
P9 == 17
S1 == 18
S7 == 24
S9 == 26
Z1 == 27
Z5 == 31
Z6 == 32
Z7 == 33

TileType == M1..Z7

\* number(t) - 1 of a suited tile, 0..8
NumOf(t) == t % 9
\* 0 = characters, 1 = circles, 2 = bamboo, 3 = honors
SuitOf(t) == t \div 9

Digits == <<"1", "2", "3", "4", "5", "6", "7", "8", "9">>
SuitChars == <<"m", "p", "s", "z">>

IndexIn(c, seq) == CHOOSE k \in 1..Len(seq) : seq[k] = c
IsDigit(c) == \E k \in 1..Len(Digits) : Digits[k] = c
IsSuitChar(c) == \E k \in 1..Len(SuitChars) : SuitChars[k] = c

\* Tile::from("<digit><suit>"): the tile, or no tile for 8z and 9z
Tile_from(d, c) ==
    LET n == IndexIn(d, Digits)
        s == IndexIn(c, SuitChars) - 1
    IN IF s = 3 /\ n > 7 THEN <<>> ELSE <<s * 9 + n - 1>>

(***************************************************************************)
(* hand.rs                                                                 *)
(***************************************************************************)
RECURSIVE FlushStack(_, _)
\* the inner loop of str_to_tiles: the pending digits become tiles of suit c
FlushStack(stack, c) ==
    IF stack = <<>> THEN <<>>
    ELSE LET t == Head(stack)
             one == IF c \in {"m", "p", "s"}
                       \/ (c = "z" /\ IndexIn(t, Digits) <= 7)
                    THEN Tile_from(t, c)
                    ELSE <<>>
         IN one \o FlushStack(Tail(stack), c)

RECURSIVE StrToTilesFrom(_, _, _, _)
StrToTilesFrom(str, k, stack, result) ==
    IF k > Len(str) THEN result
    ELSE LET c == str[k]
         IN IF IsDigit(c) THEN StrToTilesFrom(str, k + 1, Append(stack, c), result)
            ELSE IF IsSuitChar(c)
                 THEN StrToTilesFrom(str, k + 1, <<>>, result \o FlushStack(stack, c))
                 ELSE StrToTilesFrom(str, k + 1, stack, result)

str_to_tiles(hand_str) == StrToTilesFrom(hand_str, 1, <<>>, <<>>)

IsAsciiWhitespace(c) == c \in {" ", "\t", "\n", "\r", "\f"}

RECURSIVE SplitFrom(_, _, _, _)
\* str::split_ascii_whitespace: the non-empty runs of non-blank characters
SplitFrom(str, k, cur, groups) ==
    IF k > Len(str)
    THEN IF cur = <<>> THEN groups ELSE Append(groups, cur)
    ELSE IF IsAsciiWhitespace(str[k])
         THEN SplitFrom(str, k + 1, <<>>,
                        IF cur = <<>> THEN groups ELSE Append(groups, cur))
         ELSE SplitFrom(str, k + 1, Append(cur, str[k]), groups)

split_ascii_whitespace(str) == SplitFrom(str, 1, <<>>, <<>>)

OpenTiles(a, b, c, category) ==
    [tiles |-> <<a, b, c>>, category |-> category, from |-> "Unknown"]

Hand_new_with_opened(tiles, opened, drawn) ==
    [tiles |-> tiles, opened |-> opened, drawn |-> drawn]

RECURSIVE HandFromGroups(_, _, _, _, _)
\* the while loop of Hand::from over the groups after the first
HandFromGroups(groups, k, hand, opened, drawn) ==
    IF k > Len(groups) THEN Hand_new_with_opened(hand, opened, drawn)
    ELSE LET tile_vec == str_to_tiles(groups[k])
         IN CASE Len(tile_vec) = 1 ->
                   HandFromGroups(groups, k + 1, hand, opened, <<tile_vec[1]>>)
              [] Len(tile_vec) = 3 ->
                   HandFromGroups(groups, k + 1, hand,
                       Append(opened,
                              OpenTiles(tile_vec[1], tile_vec[2], tile_vec[3],
                                        IF tile_vec[1] = tile_vec[2] THEN "Pon" ELSE "Chi")),
                       drawn)
              [] Len(tile_vec) = 4 ->
                   HandFromGroups(groups, k + 1, hand,
                       Append(opened,
                              OpenTiles(tile_vec[1], tile_vec[2], tile_vec[3], "Kan")),
                       drawn)
              [] OTHER -> HandFromGroups(groups, k + 1, hand, opened, drawn)

Hand_from(hand_str) ==
    LET groups == split_ascii_whitespace(hand_str)
        first == IF groups = <<>> THEN <<>> ELSE groups[1]
    IN HandFromGroups(groups, 2, str_to_tiles(first), <<>>, <<>>)

\* Tile::to_string: the number of the tile and the letter of its suit
Tile_to_string(t) == <<Digits[NumOf(t) + 1], SuitChars[SuitOf(t) + 1]>>

RECURSIVE SortedInsert(_, _)
SortedInsert(sorted, t) ==
    IF sorted = <<>> THEN <<t>>
    ELSE IF t < sorted[1] THEN <<t>> \o sorted
    ELSE <<sorted[1]>> \o SortedInsert(Tail(sorted), t)

RECURSIVE sort(_)
\* Vec<Tile>::sort, tiles ordered by their index
sort(tiles) ==
    IF tiles = <<>> THEN <<>>
    ELSE SortedInsert(sort(Tail(tiles)), tiles[1])

\* the panic of an index past the end of a Vec, in the place of the String
Panic == <<"index out of bounds">>

RECURSIVE MakeShortStrFrom(_, _, _, _)
\* the for loop of make_short_str at index i (counted from 1), with the
\* suit of the tile before
MakeShortStrFrom(tiles, i, prev_suit, result) ==
    IF i > Len(tiles) THEN result
    ELSE LET now_suit == Tile_to_string(tiles[i])[2]
             r1 == IF i > 1
                   THEN LET r0 == Append(result, Tile_to_string(tiles[i - 1])[1])
                        IN IF now_suit # prev_suit THEN Append(r0, prev_suit) ELSE r0
                   ELSE result
         IN IF i = Len(tiles)
            THEN r1 \o <<Tile_to_string(tiles[i])[1], now_suit>>
            ELSE MakeShortStrFrom(tiles, i + 1, now_suit, r1)

\* Hand::make_short_str: a Vec of one tile is read at index 1, past its end
make_short_str(tiles) ==
    IF Len(tiles) = 0 THEN <<>>
    ELSE IF Len(tiles) = 1 THEN Panic
    ELSE MakeShortStrFrom(sort(tiles), 1, "x", <<>>)

RECURSIVE ToShortStringFrom(_, _, _)
\* the loop of to_short_string over the called melds, then the drawn tile
ToShortStringFrom(hand, i, result) ==
    IF result = Panic THEN Panic
    ELSE IF i > Len(hand.opened)
    THEN IF hand.drawn # <<>>
         THEN result \o <<" ">> \o Tile_to_string(hand.drawn[1])
         ELSE result
    ELSE LET op_tiles == IF hand.opened[i].category = "Kan"
                         THEN Append(hand.opened[i].tiles, hand.opened[i].tiles[1])
                         ELSE hand.opened[i].tiles
             group == make_short_str(op_tiles)
         IN IF group = Panic THEN Panic
            ELSE ToShortStringFrom(hand, i + 1, result \o <<" ">> \o group)

\* Hand::to_short_string
to_short_string(hand) == ToShortStringFrom(hand, 1, make_short_str(hand.tiles))

\* how many of the tiles of a sequence are tile i
CountIn(tiles, i) == Cardinality({k \in 1..Len(tiles) : tiles[k] = i})

\* how many of the stored tiles of the called melds are tile i
CountOpened(opened, i) ==
    Cardinality({m \in (1..Len(opened)) \X (1..3) : opened[m[1]].tiles[m[2]] = i})

\* Hand::summarize_tiles: result[x] += 1 for every concealed tile, every
\* stored tile of a called meld and the drawn tile.  The array is held as
\* the table of its 34 counts (f @@ <<>> is f).
summarize_tiles(hand) ==
    [i \in TileType |-> CountIn(hand.tiles, i) + CountOpened(hand.opened, i)
                        + CountIn(hand.drawn, i)] @@ <<>>

\* the tiles a summary counts, one element per copy
Copies(t) == {c \in TileType \X (1..LEN) : c[2] <= t[c[1]]}

\* the number of tiles a summary counts (no tile type is held LEN times)
SumOf(t) == Cardinality(Copies(t))

\* the least element of a non-empty set of integers
Least(S) == CHOOSE x \in S : \A y \in S : x <= y

(***************************************************************************)
(* hand_info/hand_analyzer.rs                                              *)
(*                                                                         *)
(* A loop of the analyzer is an operator over the position the loop has    *)
(* reached and the locals it has written so far.  A position whose guard   *)
(* is false changes nothing, so a loop goes from one position whose guard  *)
(* holds to the next one; the guards are evaluated on the locals as they   *)
(* are when the loop gets there.                                           *)
(***************************************************************************)
Same3_new(a, b, c) == <<a, b, c>>
Sequential3_new(a, b, c) == <<a, b, c>>
Same2_new(a, b) == <<a, b>>
Sequential2_new(a, b) == <<a, b>>

Pop(v) == SubSeq(v, 1, Len(v) - 1)

\* n copies of x
Repeat(x, n) == [k \in 1..n |-> x]

Analysis(shanten, form, same3, sequential3, same2, sequential2, single) ==
    [shanten |-> shanten, form |-> form, same3 |-> same3,
     sequential3 |-> sequential3, same2 |-> same2,
     sequential2 |-> sequential2, single |-> single]

\* the first tile from i on that the summary holds, LEN if there is none
NextHeld(t, i) == Least({j \in i..Z7 : t[j] > 0} \cup {LEN})

RECURSIVE SevenPairsCount(_, _)
\* the first loop of calc_seven_pairs, from tile i on
SevenPairsCount(i, acc) ==
    IF NextHeld(acc.t, i) >= LEN THEN acc
    ELSE IF acc.t[NextHeld(acc.t, i)] >= 2
         THEN SevenPairsCount(NextHeld(acc.t, i) + 1,
                  [acc EXCEPT !.kind = @ + 1, !.pair = @ + 1,
                              !.same2 = Append(@, Same2_new(NextHeld(acc.t, i),
                                                            NextHeld(acc.t, i))),
                              !.t[NextHeld(acc.t, i)] = @ - 2])
         ELSE SevenPairsCount(NextHeld(acc.t, i) + 1, [acc EXCEPT !.kind = @ + 1])

RECURSIVE SevenPairsSingles(_, _)
\* the second loop of calc_seven_pairs: `for _ in 0..i` pushes tile i i times
SevenPairsSingles(i, t) ==
    IF i >= LEN THEN <<>>
    ELSE Repeat(i, i) \o SevenPairsSingles(NextHeld(t, i + 1), t)

\* a variant of calc_seven_pairs that takes a tile type held four times for
\* two pairs
calc_seven_pairs_quad_as_two_pairs(hand) ==
    LET t == summarize_tiles(hand)
        pair == Cardinality({c \in TileType \X {1, 2} : t[c[1]] >= 2 * c[2]})
        kind == Cardinality({i \in TileType : t[i] > 0})
    IN Analysis(7 - pair + (IF kind < 7 THEN 7 - kind ELSE 0) - 1, "SevenPairs",
                <<>>, <<>>, <<>>, <<>>, <<>>)

calc_seven_pairs(hand) ==
    LET c == SevenPairsCount(0, [pair |-> 0, kind |-> 0, same2 |-> <<>>,
                                 t |-> summarize_tiles(hand)])
        num_to_win == 7 - c.pair + (IF c.kind < 7 THEN 7 - c.kind ELSE 0)
    IN Analysis(num_to_win - 1, "SevenPairs", <<>>, <<>>, c.same2, <<>>,
                SevenPairsSingles(NextHeld(c.t, 0), c.t))

to_tiles == <<M1, M9, P1, P9, S1, S9, Z1, Z1 + 1, Z1 + 2, Z1 + 3, Z5, Z6, Z7>>

\* a variant of calc_thirteen_orphans that counts every tile type held
calc_thirteen_orphans_any_tile(hand) ==
    LET t == summarize_tiles(hand)
        kind == Cardinality({i \in TileType : t[i] > 0})
        pair == Cardinality({i \in TileType : t[i] >= 2})
        num_to_win == 14 - kind - (IF pair > 0 THEN 1 ELSE 0)
    IN Analysis(num_to_win - 1, "ThirteenOrphans", <<>>, <<>>, <<>>, <<>>, <<>>)

\* the loop of calc_thirteen_orphans: kind counts the to_tiles held, pair
\* those held twice or more
calc_thirteen_orphans(hand) ==
    LET t == summarize_tiles(hand)
        kind == Cardinality({k \in 1..Len(to_tiles) : t[to_tiles[k]] > 0})
        pair == Cardinality({k \in 1..Len(to_tiles) : t[to_tiles[k]] >= 2})
        num_to_win == 14 - kind - (IF pair > 0 THEN 1 ELSE 0)
    IN Analysis(num_to_win - 1, "ThirteenOrphans", <<>>, <<>>, <<>>, <<>>, <<>>)

\* the neighbour tests the match arms of count_independent_same_3 and
\* count_independent_single share: no tile within two steps in the suit
NoNeighbours(t, i) ==
    IF i >= Z1 THEN TRUE
    ELSE /\ (NumOf(i) >= 2 => t[i - 2] = 0)
         /\ (NumOf(i) >= 1 => t[i - 1] = 0)
         /\ (NumOf(i) <= 7 => t[i + 1] = 0)
         /\ (NumOf(i) <= 6 => t[i + 2] = 0)

\* the first tile from i on that count_independent_same_3 takes
NextIndependentSame3(t, i) ==
    Least({j \in i..Z7 : t[j] >= 3 /\ NoNeighbours(t, j)} \cup {LEN})

RECURSIVE IndependentSame3From(_, _)
IndependentSame3From(i, acc) ==
    IF NextIndependentSame3(acc.t, i) >= LEN THEN acc
    ELSE IndependentSame3From(NextIndependentSame3(acc.t, i) + 1,
             [t |-> [acc.t EXCEPT ![NextIndependentSame3(acc.t, i)] = @ - 3],
              result |-> Append(acc.result,
                                Same3_new(NextIndependentSame3(acc.t, i),
                                          NextIndependentSame3(acc.t, i),
                                          NextIndependentSame3(acc.t, i)))])

count_independent_same_3(summarized_hand) ==
    IndependentSame3From(M1, [t |-> summarized_hand, result |-> <<>>])

\* Position p = 0..41 of the loops of count_independent_sequential_3:
\* i = 2, 1 outermost, then the suit j = M1, P1, S1, then k = 0..6.
NumRunPositions == 2 * 3 * (M7 + 1)
RunCount(p) == 2 - (p \div 21)
RunFirst(p) == ((p % 21) \div 7) * 9 + (p % 7)

\* the tests of the innermost loop that `continue`: a tile of the suit
\* within two steps of the run l, l+1, l+2 (k = l % 9)
HasNeighbours3(t, l) ==
    \/ (l % 9 >= 2 /\ t[l - 2] > 0)
    \/ (l % 9 >= 1 /\ t[l - 1] > 0)
    \/ (l % 9 <= 5 /\ t[l + 3] > 0)
    \/ (l % 9 <= 4 /\ t[l + 4] > 0)

IsIndependentSequential3(t, p) ==
    /\ ~HasNeighbours3(t, RunFirst(p))
    /\ t[RunFirst(p)] = RunCount(p)
    /\ t[RunFirst(p) + 1] = RunCount(p)
    /\ t[RunFirst(p) + 2] = RunCount(p)

\* the first position from p on at which count_independent_sequential_3 takes
NextIndependentSequential3(t, p) ==
    Least({q \in p..(NumRunPositions - 1) : IsIndependentSequential3(t, q)}
          \cup {NumRunPositions})

RECURSIVE IndependentSequential3From(_, _)
IndependentSequential3From(p, acc) ==
    IF NextIndependentSequential3(acc.t, p) >= NumRunPositions THEN acc
    ELSE IndependentSequential3From(NextIndependentSequential3(acc.t, p) + 1,
             [t |-> [acc.t EXCEPT
                       ![RunFirst(NextIndependentSequential3(acc.t, p))] =
                           @ - RunCount(NextIndependentSequential3(acc.t, p)),
                       ![RunFirst(NextIndependentSequential3(acc.t, p)) + 1] =
                           @ - RunCount(NextIndependentSequential3(acc.t, p)),
                       ![RunFirst(NextIndependentSequential3(acc.t, p)) + 2] =
                           @ - RunCount(NextIndependentSequential3(acc.t, p))],
              result |-> acc.result
                         \o Repeat(Sequential3_new(
                                       RunFirst(NextIndependentSequential3(acc.t, p)),
                                       RunFirst(NextIndependentSequential3(acc.t, p)) + 1,
                                       RunFirst(NextIndependentSequential3(acc.t, p)) + 2),
                                   RunCount(NextIndependentSequential3(acc.t, p)))])

count_independent_sequential_3(summarized_hand) ==
    IndependentSequential3From(0, [t |-> summarized_hand, result |-> <<>>])

\* the first tile from i on that count_independent_single takes
NextIndependentSingle(t, i) ==
    Least({j \in i..Z7 : t[j] = 1 /\ NoNeighbours(t, j)} \cup {LEN})

RECURSIVE IndependentSingleFrom(_, _)
IndependentSingleFrom(i, acc) ==
    IF NextIndependentSingle(acc.t, i) >= LEN THEN acc
    ELSE IndependentSingleFrom(NextIndependentSingle(acc.t, i) + 1,
             [t |-> [acc.t EXCEPT ![NextIndependentSingle(acc.t, i)] = @ - 1],
              result |-> Append(acc.result, NextIndependentSingle(acc.t, i))])

count_independent_single(summarized_hand) ==
    IndependentSingleFrom(M1, [t |-> summarized_hand, result |-> <<>>])

\* a variant that also takes a ready hand for a win
has_won_or_ready(hand) == hand.shanten <= 0

has_won(hand) == hand.shanten = -1

\* a variant of calc_normal_shanten that weighs a 3-block 3
calc_normal_shanten_weight_3(independent_same3, independent_sequential3, same3, sequential3, same2, sequential2) ==
    8 - ((Len(independent_same3) + Len(independent_sequential3)
          + Len(same3) + Len(sequential3)) * 3
         + (Len(same2) + Len(sequential2)))

calc_normal_shanten(independent_same3, independent_sequential3, same3, sequential3, same2, sequential2) ==
    8 - ((Len(independent_same3) + Len(independent_sequential3)
          + Len(same3) + Len(sequential3)) * 2
         + (Len(same2) + Len(sequential2)))

\* tiles 1..7 of a suit: the first tile of a run
IsRunStart(i) ==
    \/ (i >= M1 /\ i <= M7)
    \/ (i >= P1 /\ i <= P7)
    \/ (i >= S1 /\ i <= S7)

\* the condition guarding the partials in count_same_or_sequential_2
\* (&& binds tighter than ||)
IsPartialStart(i) ==
    \/ (i <= S9 /\ (i >= M1 /\ i <= M7))
    \/ (i >= P1 /\ i <= P7)
    \/ (i >= S1 /\ i <= S7)

RECURSIVE SinglesFrom(_, _)
\* every tile left in the summary, in tile order, from the held tile i on
SinglesFrom(t, i) ==
    IF i >= LEN THEN <<>>
    ELSE Repeat(i, t[i]) \o SinglesFrom(t, NextHeld(t, i + 1))

\* what a call hands back to its caller besides the out-parameters: the
\* working lists and the summary must be those of the call's entry
SameFrame(a, b) ==
    /\ a.t = b.t
    /\ a.same3 = b.same3
    /\ a.sequential3 = b.sequential3
    /\ a.same2 = b.same2
    /\ a.sequential2 = b.sequential2

\* a call returns: have the summary and the working lists their entry values
Returned(entry, st) == [st EXCEPT !.restored = @ /\ SameFrame(st, entry)]

\* the number of tiles a summary counts of the three types from tile i on
TilesOfThree(t, i) == t[i] + t[i + 1] + t[i + 2]

\* the number of tiles a summary counts of the nine types from tile i on
TilesOfNine(t, i) == TilesOfThree(t, i) + TilesOfThree(t, i + 3) + TilesOfThree(t, i + 6)

\* the number of tiles a summary counts
TilesIn(t) ==
    (TilesOfNine(t, M1) + TilesOfNine(t, P1))
    + (TilesOfNine(t, S1) + (TilesOfThree(t, Z1) + TilesOfThree(t, Z1 + 3) + t[Z7]))

\* a call is entered one level deeper; with st.depth calls in progress above
\* it, have two tiles per call above been removed from the summary
Enter(st) ==
    [st EXCEPT !.depth = @ + 1,
               !.max_depth = IF st.depth + 1 > @ THEN st.depth + 1 ELSE @,
               !.two_per_call = @ /\ st.total - TilesIn(st.t) >= 2 * st.depth]

RECURSIVE count_normal_shanten_recursively(_, _, _)

\* Position p of the loop of count_same_or_sequential_3: tile p \div 2,
\* first its triplet (p even), then its run (p odd).
Last3 == 2 * Z7 + 1

CanTake3(t, p) ==
    IF p % 2 = 0 THEN t[p \div 2] >= 3
    ELSE /\ IsRunStart(p \div 2)
         /\ t[p \div 2] >= 1
         /\ t[p \div 2 + 1] >= 1
         /\ t[p \div 2 + 2] >= 1

\* the positions from p on of the tiles held: the guards need a held tile
Held3(t, p) == UNION {{2 * i, 2 * i + 1} \cap (p..Last3) : i \in {j \in (p \div 2)..Z7 : t[j] > 0}}

NextTake3(t, p) == Least({q \in Held3(t, p) : CanTake3(t, q)} \cup {Last3 + 1})

\* the triplet of tile i: pushed, searched below, popped
TakeSame3(i, ind, st) ==
    [count_normal_shanten_recursively(i, ind,
         Enter([st EXCEPT !.same3 = Append(@, Same3_new(i, i, i)),
                          !.t[i] = @ - 3]))
        EXCEPT !.t[i] = @ + 3, !.same3 = Pop(@), !.depth = @ - 1]

\* the run from tile i
TakeSequential3(i, ind, st) ==
    [count_normal_shanten_recursively(i, ind,
         Enter([st EXCEPT !.sequential3 = Append(@, Sequential3_new(i, i + 1, i + 2)),
                          !.t[i] = @ - 1, !.t[i + 1] = @ - 1, !.t[i + 2] = @ - 1]))
        EXCEPT !.t[i] = @ + 1, !.t[i + 1] = @ + 1, !.t[i + 2] = @ + 1,
               !.sequential3 = Pop(@), !.depth = @ - 1]

\* Position p of the loop of count_same_or_sequential_2: tile p \div 3,
\* first its pair (p % 3 = 0), then the partial with the next tile
\* (p % 3 = 1), then the partial with the tile after the next (p % 3 = 2).
Last2 == 3 * Z7 + 2

CanTake2(t, p) ==
    CASE p % 3 = 0 -> t[p \div 3] = 2
      [] p % 3 = 1 -> /\ IsPartialStart(p \div 3)
                      /\ t[p \div 3] >= 1
                      /\ t[p \div 3 + 1] >= 1
      [] p % 3 = 2 -> /\ IsPartialStart(p \div 3)
                      /\ t[p \div 3] >= 1
                      /\ t[p \div 3 + 1] = 0
                      /\ t[p \div 3 + 2] >= 1

Held2(t, p) ==
    UNION {{3 * i, 3 * i + 1, 3 * i + 2} \cap (p..Last2) : i \in {j \in (p \div 3)..Z7 : t[j] > 0}}

NextTake2(t, p) == Least({q \in Held2(t, p) : CanTake2(t, q)} \cup {Last2 + 1})

\* a variant of TakeSame2 that takes one tile of the pair from the summary
TakeSame2RemovingOne(i, idx, ind, st) ==
    [count_normal_shanten_recursively(idx, ind,
         Enter([st EXCEPT !.same2 = Append(@, Same2_new(i, i)), !.t[i] = @ - 1]))
        EXCEPT !.t[i] = @ + 1, !.same2 = Pop(@), !.depth = @ - 1]

\* the pair of tile i
TakeSame2(i, idx, ind, st) ==
    [count_normal_shanten_recursively(idx, ind,
         Enter([st EXCEPT !.same2 = Append(@, Same2_new(i, i)), !.t[i] = @ - 2]))
        EXCEPT !.t[i] = @ + 2, !.same2 = Pop(@), !.depth = @ - 1]

\* a variant of TakeSequential2 that leaves the partial on the list
TakeSequential2KeepingPartial(i, j, idx, ind, st) ==
    [count_normal_shanten_recursively(idx, ind,
         Enter([st EXCEPT !.sequential2 = Append(@, Sequential2_new(i, j)),
                          !.t[i] = @ - 1, !.t[j] = @ - 1]))
        EXCEPT !.t[i] = @ + 1, !.t[j] = @ + 1, !.depth = @ - 1]

\* the partial i, j (j = i + 1 or i + 2)
TakeSequential2(i, j, idx, ind, st) ==
    [count_normal_shanten_recursively(idx, ind,
         Enter([st EXCEPT !.sequential2 = Append(@, Sequential2_new(i, j)),
                          !.t[i] = @ - 1, !.t[j] = @ - 1]))
        EXCEPT !.t[i] = @ + 1, !.t[j] = @ + 1, !.sequential2 = Pop(@),
               !.depth = @ - 1]

\* a variant of KeepMinimum that does not rebuild the singles
KeepMinimumStaleSingles(ind, st) ==
    IF st.shanten_min > calc_normal_shanten(ind.same3, ind.sequential3, st.same3,
                                            st.sequential3, st.same2, st.sequential2)
    THEN [st EXCEPT !.shanten_min =
                        calc_normal_shanten(ind.same3, ind.sequential3, st.same3,
                                            st.sequential3, st.same2, st.sequential2),
                    !.same3_result = st.same3,
                    !.sequential3_result = st.sequential3,
                    !.same2_result = st.same2,
                    !.sequential2_result = st.sequential2]
    ELSE st

\* the end of count_normal_shanten_recursively: a strictly smaller shanten
\* replaces the minimum and the result lists
KeepMinimum(ind, st) ==
    IF st.shanten_min > calc_normal_shanten(ind.same3, ind.sequential3, st.same3,
                                            st.sequential3, st.same2, st.sequential2)
    THEN [st EXCEPT !.shanten_min =
                        calc_normal_shanten(ind.same3, ind.sequential3, st.same3,
                                            st.sequential3, st.same2, st.sequential2),
                    !.same3_result = st.same3,
                    !.sequential3_result = st.sequential3,
                    !.same2_result = st.same2,
                    !.sequential2_result = st.sequential2,
                    !.single_result = SinglesFrom(st.t, NextHeld(st.t, M1))]
    ELSE st

RECURSIVE Same2OrSequential2At(_, _, _, _, _)

\* count_same_or_sequential_2 goes on from position p
Same2OrSequential2From(p, idx, ind, entry, st) ==
    Same2OrSequential2At(NextTake2(st.t, p), idx, ind, entry, st)

\* count_same_or_sequential_2 at the position p it takes next, then the
\* rest of the call of count_normal_shanten_recursively entered with `entry`
Same2OrSequential2At(p, idx, ind, entry, st) ==
    IF p > Last2
    THEN Returned(entry, KeepMinimum(ind, Returned(entry, st)))
    ELSE Same2OrSequential2From(p + 1, idx, ind, entry,
             IF p % 3 = 0
             THEN TakeSame2(p \div 3, idx, ind, st)
             ELSE TakeSequential2(p \div 3, p \div 3 + (p % 3), idx, ind, st))

RECURSIVE Same3OrSequential3At(_, _, _, _, _)

\* count_same_or_sequential_3 goes on from position p
Same3OrSequential3From(p, idx, ind, entry, st) ==
    Same3OrSequential3At(NextTake3(st.t, p), idx, ind, entry, st)

\* count_same_or_sequential_3 at the position p it takes next, then
\* count_same_or_sequential_2 from tile idx on
Same3OrSequential3At(p, idx, ind, entry, st) ==
    IF p > Last3
    THEN Same2OrSequential2From(3 * idx, idx, ind, entry, Returned(entry, st))
    ELSE Same3OrSequential3From(p + 1, idx, ind, entry,
             IF p % 2 = 0
             THEN TakeSame3(p \div 2, ind, st)
             ELSE TakeSequential3(p \div 2, ind, st))

count_normal_shanten_recursively(idx, ind, st) ==
    Same3OrSequential3From(2 * idx, idx, ind, st, st)

\* the first tile from i on that the pair-extraction loop takes a pair of
NextHead(t, i) == Least({j \in i..Z7 : t[j] >= 2} \cup {LEN})

\* calc_normal_form: the pair of tile i pushed, searched below, popped
TakeHead(i, ind, st) ==
    [count_normal_shanten_recursively(M1, ind,
         Enter([st EXCEPT !.same2 = Append(@, Same2_new(i, i)), !.t[i] = @ - 2]))
        EXCEPT !.t[i] = @ + 2, !.same2 = Pop(@), !.depth = @ - 1]

\* calc_normal_form: the search without a pair taken first
WithoutHead(ind, st) ==
    [count_normal_shanten_recursively(M1, ind, Enter(st)) EXCEPT !.depth = @ - 1]

RECURSIVE ExtractHeadAt(_, _, _)

\* the pair-extraction loop of calc_normal_form goes on from tile i
ExtractHeadFrom(i, ind, st) == ExtractHeadAt(NextHead(st.t, i), ind, st)

\* the pair-extraction loop at the tile i it takes next, then the search
\* without a pair
ExtractHeadAt(i, ind, st) ==
    IF i >= LEN THEN WithoutHead(ind, st)
    ELSE ExtractHeadFrom(i + 1, ind, TakeHead(i, ind, st))

\* the locals of calc_normal_form after the three peeling passes
SearchEntry(t) ==
    [t |-> t, same3 |-> <<>>, sequential3 |-> <<>>, same2 |-> <<>>,
     sequential2 |-> <<>>, shanten_min |-> 100,
     same3_result |-> <<>>, sequential3_result |-> <<>>,
     same2_result |-> <<>>, sequential2_result |-> <<>>,
     single_result |-> <<>>,
     depth |-> 0, max_depth |-> 0, restored |-> TRUE,
     total |-> TilesIn(t), two_per_call |-> TRUE]

\* the search of calc_normal_form: the independent blocks it peeled first,
\* the locals at the start of the search and at its end
NormalSearch(hand) ==
    LET p3 == count_independent_same_3(summarize_tiles(hand))
        q3 == count_independent_sequential_3(p3.t)
        p1 == count_independent_single(q3.t)
        ind == [same3 |-> p3.result, sequential3 |-> q3.result, single |-> p1.result]
    IN [ind |-> ind, entry |-> SearchEntry(p1.t),
        st |-> ExtractHeadFrom(M1, ind, SearchEntry(p1.t))]

calc_normal_form(hand) ==
    LET s == NormalSearch(hand)
    IN Analysis(s.st.shanten_min, "Normal",
                s.st.same3_result \o s.ind.same3,
                s.st.sequential3_result \o s.ind.sequential3,
                s.st.same2_result, s.st.sequential2_result,
                s.st.single_result \o s.ind.single)

new_by_form(hand, form) ==
    CASE form = "SevenPairs" -> calc_seven_pairs(hand)
      [] form = "ThirteenOrphans" -> calc_thirteen_orphans(hand)
      [] form = "Normal" -> calc_normal_form(hand)

\* std::cmp::min under Ord for HandAnalyzer (shanten only): the first on a tie
MinAnalysis(a, b) == IF b.shanten < a.shanten THEN b ELSE a

\* a variant of SelectForm without the preference for a won Normal form
SelectFormByMinimum(sp, to, normal) == MinAnalysis(MinAnalysis(sp, to), normal)

\* HandAnalyzer::new after the three analyses: Normal if it has won, else
\* the least shanten
SelectForm(sp, to, normal) ==
    IF normal.shanten = -1 THEN normal
    ELSE MinAnalysis(MinAnalysis(sp, to), normal)

(***************************************************************************)
(* hand_info/status.rs, settings.rs and the block predicates               *)
(* (hand_info/block.rs is not part of the sources at hand: a block has a   *)
(* terminal, an honor, a wind or a dragon when one of its tiles is one).   *)
(***************************************************************************)
Winds == {"East", "South", "West", "North"}
Dragons == {"White", "Green", "Red"}

WindTile(w) ==
    CASE w = "East" -> Z1 [] w = "South" -> Z1 + 1
      [] w = "West" -> Z1 + 2 [] w = "North" -> Z1 + 3

DragonTile(d) == CASE d = "White" -> Z5 [] d = "Green" -> Z6 [] d = "Red" -> Z7

has_1_or_9(b) == \E k \in 1..Len(b) : b[k] <= S9 /\ (NumOf(b[k]) = 0 \/ NumOf(b[k]) = 8)
has_honor(b) == \E k \in 1..Len(b) : b[k] >= Z1
is_character(b) == \A k \in 1..Len(b) : SuitOf(b[k]) = 0
is_circle(b) == \A k \in 1..Len(b) : SuitOf(b[k]) = 1
is_bamboo(b) == \A k \in 1..Len(b) : SuitOf(b[k]) = 2
has_wind(b, w) == \E k \in 1..Len(b) : b[k] = WindTile(w)
has_dragon(b, d) == \E k \in 1..Len(b) : b[k] = DragonTile(d)
has_any_dragon(b) == \E d \in Dragons : has_dragon(b, d)
has_any_wind(b) == \E w \in Winds : has_wind(b, w)

\* status::is_two_sided_wait(tile, counts); && does not read counts when
\* the offset test before it fails
is_two_sided_wait(tile, counts) ==
    IF ~(tile >= M1 /\ tile <= S9) THEN FALSE
    ELSE LET offset == IF tile >= M1 /\ tile <= M9 THEN tile - M1 + 1
                       ELSE IF tile >= P1 /\ tile <= P9 THEN tile - P1 + 1
                       ELSE tile - S1 + 1
         IN IF /\ offset >= 3
               /\ counts[tile - 1] > 0
               /\ counts[tile - 2] > 0
               /\ offset # 3
               /\ offset # 9
            THEN TRUE
            ELSE IF /\ offset <= 7
                    /\ counts[tile + 1] > 0
                    /\ counts[tile + 2] > 0
                    /\ offset # 1
                    /\ offset # 7
            THEN TRUE
            ELSE FALSE

\* Status::new()
Status_new ==
    [has_claimed_ready |-> FALSE, has_claimed_open |-> FALSE,
     is_self_picked |-> FALSE, is_one_shot |-> FALSE,
     player_wind |-> "East", prevailing_wind |-> "East",
     is_last_tile_from_the_wall |-> FALSE, is_last_discard |-> FALSE,
     is_dead_wall_draw |-> FALSE, is_robbing_a_quad |-> FALSE,
     is_double_ready |-> FALSE, is_dealer |-> FALSE, is_first_turn |-> FALSE,
     is_nagashi_mangan |-> FALSE, kan_count |-> 0]

\* Settings::new()
Settings_new == [display_lang |-> "Ja", opened_all_simples |-> TRUE]

(***************************************************************************)
(* winning_hand/check_*.rs: a predicate returns (name, matched, han); the  *)
(* model keeps matched and han.                                            *)
(***************************************************************************)
Yaku(han) == [matched |-> TRUE, han |-> han]
NoYaku == [matched |-> FALSE, han |-> 0]

\* the indices of a list of blocks
Idx(blocks) == 1..Len(blocks)

check_ready_hand(a, status, settings) ==
    IF ~has_won(a) THEN NoYaku
    ELSE IF status.has_claimed_open THEN NoYaku
    ELSE IF status.has_claimed_ready THEN Yaku(1) ELSE NoYaku

check_self_pick(a, status, settings) ==
    IF ~has_won(a) THEN NoYaku
    ELSE IF ~status.has_claimed_open /\ status.is_self_picked THEN Yaku(1)
    ELSE NoYaku

check_one_shot(a, status, settings) ==
    IF ~has_won(a) THEN NoYaku
    ELSE IF ~check_ready_hand(a, status, settings).matched THEN NoYaku
    ELSE IF status.is_one_shot THEN Yaku(1) ELSE NoYaku

check_last_tile_from_the_wall(a, status, settings) ==
    IF ~has_won(a) THEN NoYaku
    ELSE IF status.is_last_tile_from_the_wall /\ status.is_self_picked THEN Yaku(1)
    ELSE NoYaku

check_last_discard(a, status, settings) ==
    IF ~has_won(a) THEN NoYaku
    ELSE IF status.is_last_discard /\ ~status.is_self_picked THEN Yaku(1)
    ELSE NoYaku

check_dead_wall_draw(a, status, settings) ==
    IF ~has_won(a) THEN NoYaku
    ELSE IF status.is_dead_wall_draw /\ status.is_self_picked THEN Yaku(1)
    ELSE NoYaku

check_robbing_a_quad(a, status, settings) ==
    IF ~has_won(a) THEN NoYaku
    ELSE IF status.is_robbing_a_quad /\ ~status.is_self_picked THEN Yaku(1)
    ELSE NoYaku

check_double_ready(a, status, settings) ==
    IF ~has_won(a) THEN NoYaku
    ELSE IF status.has_claimed_open THEN NoYaku
    ELSE IF status.is_double_ready /\ status.has_claimed_ready THEN Yaku(2)
    ELSE NoYaku

\* check_1_han.rs declares it with (hand, status, settings); checker.rs
\* passes the Hand as well, which the body does not read
check_no_points_hand(a, status, settings) ==
    IF ~has_won(a) THEN NoYaku
    ELSE IF status.has_claimed_open THEN NoYaku
    ELSE IF Len(a.sequential3) # 4 \/ Len(a.same2) # 1 THEN NoYaku
    ELSE IF \E k \in Idx(a.same2) :
               \/ has_any_dragon(a.same2[k])
               \/ has_wind(a.same2[k], status.player_wind)
               \/ has_wind(a.same2[k], status.prevailing_wind)
         THEN NoYaku
    ELSE Yaku(1)

check_one_set_of_identical_sequences(a, status, settings) ==
    IF ~has_won(a) THEN NoYaku
    ELSE IF status.has_claimed_open THEN NoYaku
    ELSE IF Len(a.sequential3) < 2 THEN NoYaku
    ELSE IF \E i, j \in Idx(a.sequential3) : i < j /\ a.sequential3[i] = a.sequential3[j]
         THEN Yaku(1)
    ELSE NoYaku

check_all_simples(a, status, settings) ==
    IF ~has_won(a) THEN NoYaku
    ELSE IF ~settings.opened_all_simples /\ status.has_claimed_open THEN NoYaku
    ELSE IF \/ \E k \in Idx(a.same3) : has_1_or_9(a.same3[k]) \/ has_honor(a.same3[k])
            \/ \E k \in Idx(a.sequential3) : has_1_or_9(a.sequential3[k])
            \/ \E k \in Idx(a.same2) : has_1_or_9(a.same2[k]) \/ has_honor(a.same2[k])
         THEN NoYaku
    ELSE Yaku(1)

check_honor_tiles_players_wind(a, status, settings) ==
    IF ~has_won(a) THEN NoYaku
    ELSE IF \E k \in Idx(a.same3) : has_wind(a.same3[k], status.player_wind)
         THEN Yaku(1)
    ELSE NoYaku

check_honor_tiles_prevailing_wind(a, status, settings) ==
    IF ~has_won(a) THEN NoYaku
    ELSE IF \E k \in Idx(a.same3) : has_wind(a.same3[k], status.prevailing_wind)
         THEN Yaku(1)
    ELSE NoYaku

check_honor_tiles_dragons(a, dragon) ==
    IF ~has_won(a) THEN FALSE
    ELSE \E k \in Idx(a.same3) : has_dragon(a.same3[k], dragon)

check_honor_tiles_white_dragon(a, status, settings) ==
    IF check_honor_tiles_dragons(a, "White") THEN Yaku(1) ELSE NoYaku

check_honor_tiles_green_dragon(a, status, settings) ==
    IF check_honor_tiles_dragons(a, "Green") THEN Yaku(1) ELSE NoYaku

check_honor_tiles_red_dragon(a, status, settings) ==
    IF check_honor_tiles_dragons(a, "Red") THEN Yaku(1) ELSE NoYaku

check_seven_pairs(a, status, settings) ==
    IF ~has_won(a) THEN NoYaku
    ELSE IF a.form = "SevenPairs" THEN Yaku(2) ELSE NoYaku

\* 2 han concealed, 1 han open
OpenReduced(status) == IF status.has_claimed_open THEN Yaku(1) ELSE Yaku(2)

check_three_color_straight(a, status, settings) ==
    IF ~has_won(a) THEN NoYaku
    ELSE IF Len(a.sequential3) < 3 THEN NoYaku
    ELSE IF \E i, j, k \in Idx(a.sequential3) :
               /\ i < j /\ j < k
               /\ a.sequential3[i][1] % 9 = a.sequential3[j][1] % 9
               /\ a.sequential3[j][1] % 9 = a.sequential3[k][1] % 9
               /\ Cardinality({a.sequential3[i][1] \div 9, a.sequential3[j][1] \div 9,
                               a.sequential3[k][1] \div 9}) = 3
               /\ a.sequential3[i][1] \div 9 < 3
               /\ a.sequential3[j][1] \div 9 < 3
               /\ a.sequential3[k][1] \div 9 < 3
         THEN OpenReduced(status)
    ELSE NoYaku

\* the suit whose first tile is j has the runs 123, 456 and 789
HasStraightIn(a, j) ==
    \A n \in {0, 3, 6} :
        \E k \in Idx(a.sequential3) : a.sequential3[k] = <<j + n, j + n + 1, j + n + 2>>

check_straight(a, status, settings) ==
    IF ~has_won(a) THEN NoYaku
    ELSE IF HasStraightIn(a, M1) \/ HasStraightIn(a, P1) \/ HasStraightIn(a, S1)
         THEN OpenReduced(status)
    ELSE NoYaku

check_all_triplet_hand(a, status, settings) ==
    IF ~has_won(a) THEN NoYaku
    ELSE IF Len(a.same3) = 4 /\ Len(a.same2) = 1 THEN Yaku(2) ELSE NoYaku

check_three_closed_triplets(a, status, settings) ==
    IF ~has_won(a) THEN NoYaku
    ELSE IF Len(a.same3) >= 3 THEN Yaku(2) ELSE NoYaku

check_three_color_triplets(a, status, settings) ==
    IF ~has_won(a) THEN NoYaku
    ELSE IF Len(a.same3) < 3 THEN NoYaku
    ELSE IF \E i, j, k \in Idx(a.same3) :
               /\ i < j /\ j < k
               /\ ~(a.same3[i][1] > S9 \/ a.same3[j][1] > S9 \/ a.same3[k][1] > S9)
               /\ a.same3[i][1] % 9 = a.same3[j][1] % 9
               /\ a.same3[j][1] % 9 = a.same3[k][1] % 9
               /\ Cardinality({a.same3[i][1] \div 9, a.same3[j][1] \div 9,
                               a.same3[k][1] \div 9}) = 3
         THEN Yaku(2)
    ELSE NoYaku

check_terminal_or_honor_in_each_set(a, status, settings) ==
    IF ~has_won(a) THEN NoYaku
    ELSE IF Len(a.sequential3) = 0 THEN NoYaku
    ELSE LET no_1_9_honor ==
                 \/ \E k \in Idx(a.same3) :
                        ~has_1_or_9(a.same3[k]) /\ ~has_honor(a.same3[k])
                 \/ \E k \in Idx(a.sequential3) : ~has_1_or_9(a.sequential3[k])
                 \/ \E k \in Idx(a.same2) :
                        ~has_1_or_9(a.same2[k]) /\ ~has_honor(a.same2[k])
             honor ==
                 \/ \E k \in Idx(a.same3) : has_honor(a.same3[k])
                 \/ \E k \in Idx(a.same2) : has_honor(a.same2[k])
         IN IF no_1_9_honor \/ ~honor THEN NoYaku ELSE OpenReduced(status)

check_all_terminals_and_honors(a, status, settings) ==
    IF ~has_won(a) THEN NoYaku
    ELSE IF Len(a.sequential3) > 0 THEN NoYaku
    ELSE IF \/ \E k \in Idx(a.same3) : ~has_honor(a.same3[k]) /\ ~has_1_or_9(a.same3[k])
            \/ \E k \in Idx(a.same2) : ~has_honor(a.same2[k]) /\ ~has_1_or_9(a.same2[k])
         THEN NoYaku
    ELSE IF /\ \E b \in {a.same3[k] : k \in Idx(a.same3)}
                        \cup {a.same2[k] : k \in Idx(a.same2)} : has_honor(b)
            /\ \E b \in {a.same3[k] : k \in Idx(a.same3)}
                        \cup {a.same2[k] : k \in Idx(a.same2)} : ~has_honor(b)
         THEN Yaku(2)
    ELSE NoYaku

check_little_three_dragons(a, status, settings) ==
    IF ~has_won(a) THEN NoYaku
    ELSE IF /\ Cardinality({k \in Idx(a.same3) : has_any_dragon(a.same3[k])}) = 2
            /\ \E k \in Idx(a.same2) : has_any_dragon(a.same2[k])
         THEN Yaku(2)
    ELSE NoYaku

\* 3 han concealed, 2 han open
OpenReduced3(status) == IF status.has_claimed_open THEN Yaku(2) ELSE Yaku(3)

\* pair_count of check_two_sets_of_identical_sequences: run i takes the
\* first unused equal run after it
RECURSIVE IdenticalPairs(_, _, _)
IdenticalPairs(runs, i, used) ==
    IF i > 4 THEN 0
    ELSE IF i \in used THEN IdenticalPairs(runs, i + 1, used)
    ELSE LET js == {j \in (i + 1)..4 : j \notin used /\ runs[i] = runs[j]}
         IN IF js = {} THEN IdenticalPairs(runs, i + 1, used)
            ELSE 1 + IdenticalPairs(runs, i + 1, used \cup {i, Least(js)})

check_two_sets_of_identical_sequences(a, status, settings) ==
    IF ~has_won(a) THEN NoYaku
    ELSE IF status.has_claimed_open THEN NoYaku
    ELSE IF Len(a.sequential3) # 4 THEN NoYaku
    ELSE IF IdenticalPairs(a.sequential3, 1, {}) = 2 THEN Yaku(3)
    ELSE NoYaku

check_terminal_in_each_set(a, status, settings) ==
    IF ~has_won(a) THEN NoYaku
    ELSE IF Len(a.sequential3) = 0 THEN NoYaku
    ELSE IF \/ \E k \in Idx(a.same3) : ~has_1_or_9(a.same3[k])
            \/ \E k \in Idx(a.sequential3) : ~has_1_or_9(a.sequential3[k])
            \/ \E k \in Idx(a.same2) : ~has_1_or_9(a.same2[k])
         THEN NoYaku
    ELSE OpenReduced3(status)

\* the triplets and pairs of an analysis, and these with its runs
SameBlocks(a) == {a.same3[k] : k \in Idx(a.same3)} \cup {a.same2[k] : k \in Idx(a.same2)}
Blocks(a) == SameBlocks(a) \cup {a.sequential3[k] : k \in Idx(a.sequential3)}

\* suit_count: how many of has_character, has_circle, has_bamboo are set
suit_count(a) ==
    Cardinality({n \in 0..2 :
        \E b \in Blocks(a) :
            \/ n = 0 /\ is_character(b)
            \/ n = 1 /\ is_circle(b)
            \/ n = 2 /\ is_bamboo(b)})

check_half_flush(a, status, settings) ==
    IF ~has_won(a) THEN NoYaku
    ELSE IF ~\E b \in SameBlocks(a) : has_honor(b) THEN NoYaku
    ELSE IF suit_count(a) # 1 THEN NoYaku
    ELSE OpenReduced3(status)

check_nagashi_mangan(a, status, settings) ==
    IF ~has_won(a) THEN NoYaku
    ELSE IF status.is_nagashi_mangan THEN Yaku(5) ELSE NoYaku

check_flush(a, status, settings) ==
    IF ~has_won(a) THEN NoYaku
    ELSE IF \E b \in SameBlocks(a) : has_honor(b) THEN NoYaku
    ELSE IF suit_count(a) # 1 THEN NoYaku
    ELSE IF status.has_claimed_open THEN Yaku(5) ELSE Yaku(6)

check_thirteen_orphans(a, status, settings) ==
    IF ~has_won(a) THEN NoYaku
    ELSE IF a.form = "ThirteenOrphans" THEN Yaku(13) ELSE NoYaku

check_four_concealed_triplets(a, status, settings) ==
    IF ~has_won(a) THEN NoYaku
    ELSE IF ~status.has_claimed_open /\ Len(a.same3) = 4 /\ status.is_self_picked
         THEN Yaku(13)
    ELSE NoYaku

check_big_three_dragons(a, status, settings) ==
    IF ~has_won(a) THEN NoYaku
    ELSE IF Cardinality({k \in Idx(a.same3) : has_any_dragon(a.same3[k])}) = 3
         THEN Yaku(13)
    ELSE NoYaku

check_little_four_winds(a, status, settings) ==
    IF ~has_won(a) THEN NoYaku
    ELSE IF /\ Cardinality({k \in Idx(a.same3) : has_any_wind(a.same3[k])}) = 3
            /\ \E k \in Idx(a.same2) : has_any_wind(a.same2[k])
         THEN Yaku(13)
    ELSE NoYaku

check_big_four_winds(a, status, settings) ==
    IF ~has_won(a) THEN NoYaku
    ELSE IF Cardinality({k \in Idx(a.same3) : has_any_wind(a.same3[k])}) = 4
         THEN Yaku(13)
    ELSE NoYaku

check_all_honors(a, status, settings) ==
    IF ~has_won(a) THEN NoYaku
    ELSE IF \E b \in SameBlocks(a) : ~has_honor(b) THEN NoYaku
    ELSE IF Len(a.sequential3) > 0 THEN NoYaku
    ELSE Yaku(13)

check_all_terminals(a, status, settings) ==
    IF ~has_won(a) THEN NoYaku
    ELSE IF Len(a.sequential3) > 0 THEN NoYaku
    ELSE IF \E b \in SameBlocks(a) : ~has_1_or_9(b) \/ has_honor(b) THEN NoYaku
    ELSE Yaku(13)

\* Tile::S2 | Tile::S3 | Tile::S4 | Tile::S6 | Tile::S8 | Tile::Z6
is_green_tile(t) == t \in {S1 + 1, S1 + 2, S1 + 3, S1 + 5, S1 + 7, Z6}

check_all_green(a, status, settings) ==
    IF ~has_won(a) THEN NoYaku
    ELSE IF \/ \E b \in SameBlocks(a) : ~is_green_tile(b[1])
            \/ \E k \in Idx(a.sequential3) :
                   \E n \in 1..3 : ~is_green_tile(a.sequential3[k][n])
         THEN NoYaku
    ELSE Yaku(13)

\* counts[n] of check_nine_gates for the suit that starts at tile offset
NineGatesCounts(a, offset) ==
    [n \in 0..8 |->
        3 * Cardinality({k \in Idx(a.same3) : a.same3[k][1] = offset + n})
        + Cardinality({c \in Idx(a.sequential3) \X (1..3) :
                          a.sequential3[c[1]][c[2]] = offset + n})
        + 2 * Cardinality({k \in Idx(a.same2) : a.same2[k][1] = offset + n})
        + Cardinality({k \in Idx(a.single) : a.single[k] = offset + n})]

check_nine_gates(a, status, settings) ==
    IF ~has_won(a) THEN NoYaku
    ELSE IF status.has_claimed_open THEN NoYaku
    ELSE IF \E b \in SameBlocks(a) : has_honor(b) THEN NoYaku
    ELSE IF suit_count(a) # 1 THEN NoYaku
    ELSE LET offset == IF \E b \in Blocks(a) : is_character(b) THEN M1
                       ELSE IF \E b \in Blocks(a) : is_circle(b) THEN P1
                       ELSE S1
             counts == NineGatesCounts(a, offset)
         IN IF /\ counts[0] >= 3
               /\ counts[8] >= 3
               /\ \A n \in 1..7 : counts[n] >= 1
               /\ counts[0] + counts[1] + counts[2] + counts[3] + counts[4]
                  + counts[5] + counts[6] + counts[7] + counts[8] = 14
            THEN Yaku(13)
            ELSE NoYaku

check_four_kans(a, status, settings) ==
    IF ~has_won(a) THEN NoYaku
    ELSE IF status.kan_count = 4 THEN Yaku(13) ELSE NoYaku

check_heavenly_hand(a, status, settings) ==
    IF ~has_won(a) THEN NoYaku
    ELSE IF /\ status.is_dealer /\ status.is_first_turn
            /\ status.is_self_picked /\ ~status.has_claimed_open
         THEN Yaku(13)
    ELSE NoYaku

check_hand_of_earth(a, status, settings) ==
    IF ~has_won(a) THEN NoYaku
    ELSE IF /\ ~status.is_dealer /\ status.is_first_turn
            /\ status.is_self_picked /\ ~status.has_claimed_open
         THEN Yaku(13)
    ELSE NoYaku

(***************************************************************************)
(* winning_hand/name.rs and winning_hand/checker.rs                        *)
(***************************************************************************)
Kind ==
    {"ReadyHand", "SevenPairs", "NagashiMangan", "SelfPick", "OneShot",
     "LastTileFromTheWall", "LastDiscard", "DeadWallDraw", "RobbingAQuad",
     "DoubleReady", "NoPointsHand", "OneSetOfIdenticalSequences",
     "ThreeColorStraight", "Straight", "TwoSetsOfIdenticalSequences",
     "AllTripletHand", "ThreeClosedTriplets", "ThreeColorTriplets",
     "AllSimples", "HonorTilesPlayersWind", "HonorTilesPrevailingWind",
     "HonorTilesWhiteDragon", "HonorTilesGreenDragon", "HonorTilesRedDragon",
     "TerminalOrHonorInEachSet", "TerminalInEachSet", "AllTerminalsAndHonors",
     "LittleThreeDragons", "HalfFlush", "Flush", "ThirteenOrphans",
     "FourConcealedTriplets", "BigThreeDragons", "LittleFourWinds",
     "BigFourWinds", "AllHonors", "AllTerminals", "AllGreen", "NineGates",
     "FourKans", "HeavenlyHand", "HandOfEarth"}

\* the kinds whose name is built by openned_name!
OpennedNamed ==
    {"ThreeColorStraight",
     "Straight",
     "TerminalOrHonorInEachSet",
     "TerminalInEachSet",
     "HalfFlush",
     "Flush"}

\* a &'static str is the sequence of its Unicode scalar values; the order of
\* the values is the order of the UTF-8 bytes that str::cmp compares
\* " (Open)"
OpenSuffixEn == <<32, 40, 79, 112, 101, 110, 41>>
\* the Japanese suffix of an open hand: U+9CF4 in full-width parentheses
OpenSuffixJa == <<65288, 40180, 65289>>

\* the literals of get_en, per kind
NamesEn ==
    \* Ready Hand
    ("ReadyHand" :>
        <<82, 101, 97, 100, 121, 32, 72, 97, 110, 100>>) @@
    \* Seven Pairs
    ("SevenPairs" :>
        <<83, 101, 118, 101, 110, 32, 80, 97, 105, 114, 115>>) @@
    \* Nagashi Mangan
    ("NagashiMangan" :>
        <<78, 97, 103, 97, 115, 104, 105, 32, 77, 97, 110, 103, 97, 110>>) @@
    \* Self Pick
    ("SelfPick" :>
        <<83, 101, 108, 102, 32, 80, 105, 99, 107>>) @@
    \* One Shot
    ("OneShot" :>
        <<79, 110, 101, 32, 83, 104, 111, 116>>) @@
    \* Last Tile From The Wall
    ("LastTileFromTheWall" :>
        <<76, 97, 115, 116, 32, 84, 105, 108, 101, 32, 70, 114, 111, 109, 32, 84, 104, 101, 32, 87, 97, 108, 108>>) @@
    \* Last Discard
    ("LastDiscard" :>
        <<76, 97, 115, 116, 32, 68, 105, 115, 99, 97, 114, 100>>) @@
    \* Dead Wall Draw
    ("DeadWallDraw" :>
        <<68, 101, 97, 100, 32, 87, 97, 108, 108, 32, 68, 114, 97, 119>>) @@
    \* Robbing A Quad
    ("RobbingAQuad" :>
        <<82, 111, 98, 98, 105, 110, 103, 32, 65, 32, 81, 117, 97, 100>>) @@
    \* Double Ready
    ("DoubleReady" :>
        <<68, 111, 117, 98, 108, 101, 32, 82, 101, 97, 100, 121>>) @@
    \* No Points Hand
    ("NoPointsHand" :>
        <<78, 111, 32, 80, 111, 105, 110, 116, 115, 32, 72, 97, 110, 100>>) @@
    \* One Set Of Identical Sequences
    ("OneSetOfIdenticalSequences" :>
        <<79, 110, 101, 32, 83, 101, 116, 32, 79, 102, 32, 73, 100, 101, 110, 116, 105, 99, 97, 108, 32, 83, 101, 113, 117, 101, 110, 99, 101, 115>>) @@
    \* Three Color Straight
    ("ThreeColorStraight" :>
        <<84, 104, 114, 101, 101, 32, 67, 111, 108, 111, 114, 32, 83, 116, 114, 97, 105, 103, 104, 116>>) @@
    \* Straight
    ("Straight" :>
        <<83, 116, 114, 97, 105, 103, 104, 116>>) @@
    \* Two Sets Of Identical Sequences
    ("TwoSetsOfIdenticalSequences" :>
        <<84, 119, 111, 32, 83, 101, 116, 115, 32, 79, 102, 32, 73, 100, 101, 110, 116, 105, 99, 97, 108, 32, 83, 101, 113, 117, 101, 110, 99, 101, 115>>) @@
    \* All Triplet Hand
    ("AllTripletHand" :>
        <<65, 108, 108, 32, 84, 114, 105, 112, 108, 101, 116, 32, 72, 97, 110, 100>>) @@
    \* Three Closed Triplets
    ("ThreeClosedTriplets" :>
        <<84, 104, 114, 101, 101, 32, 67, 108, 111, 115, 101, 100, 32, 84, 114, 105, 112, 108, 101, 116, 115>>) @@
    \* Three Color Triplets
    ("ThreeColorTriplets" :>
        <<84, 104, 114, 101, 101, 32, 67, 111, 108, 111, 114, 32, 84, 114, 105, 112, 108, 101, 116, 115>>) @@
    \* All Simples
    ("AllSimples" :>
        <<65, 108, 108, 32, 83, 105, 109, 112, 108, 101, 115>>) @@
    \* Honor Tiles (Players Wind)
    ("HonorTilesPlayersWind" :>
        <<72, 111, 110, 111, 114, 32, 84, 105, 108, 101, 115, 32, 40, 80, 108, 97, 121, 101, 114, 115, 32, 87, 105, 110, 100, 41>>) @@
    \* Honor Tiles (Prevailing Wind)
    ("HonorTilesPrevailingWind" :>
        <<72, 111, 110, 111, 114, 32, 84, 105, 108, 101, 115, 32, 40, 80, 114, 101, 118, 97, 105, 108, 105, 110, 103, 32, 87, 105, 110, 100, 41>>) @@
    \* Honor Tiles (White Dragon)
    ("HonorTilesWhiteDragon" :>
        <<72, 111, 110, 111, 114, 32, 84, 105, 108, 101, 115, 32, 40, 87, 104, 105, 116, 101, 32, 68, 114, 97, 103, 111, 110, 41>>) @@
    \* Honor Tiles (Green Dragon)
    ("HonorTilesGreenDragon" :>
        <<72, 111, 110, 111, 114, 32, 84, 105, 108, 101, 115, 32, 40, 71, 114, 101, 101, 110, 32, 68, 114, 97, 103, 111, 110, 41>>) @@
    \* Honor Tiles (Red Dragon)
    ("HonorTilesRedDragon" :>
        <<72, 111, 110, 111, 114, 32, 84, 105, 108, 101, 115, 32, 40, 82, 101, 100, 32, 68, 114, 97, 103, 111, 110, 41>>) @@
    \* Terminal Or Honor In Each Set
    ("TerminalOrHonorInEachSet" :>
        <<84, 101, 114, 109, 105, 110, 97, 108, 32, 79, 114, 32, 72, 111, 110, 111, 114, 32, 73, 110, 32, 69, 97, 99, 104, 32, 83, 101, 116>>) @@
    \* Terminal In Each Set
    ("TerminalInEachSet" :>
        <<84, 101, 114, 109, 105, 110, 97, 108, 32, 73, 110, 32, 69, 97, 99, 104, 32, 83, 101, 116>>) @@
    \* All Terminals And Honors
    ("AllTerminalsAndHonors" :>
        <<65, 108, 108, 32, 84, 101, 114, 109, 105, 110, 97, 108, 115, 32, 65, 110, 100, 32, 72, 111, 110, 111, 114, 115>>) @@
    \* Little Three Dragons
    ("LittleThreeDragons" :>
        <<76, 105, 116, 116, 108, 101, 32, 84, 104, 114, 101, 101, 32, 68, 114, 97, 103, 111, 110, 115>>) @@
    \* Half Flush
    ("HalfFlush" :>
        <<72, 97, 108, 102, 32, 70, 108, 117, 115, 104>>) @@
    \* Flush
    ("Flush" :>
        <<70, 108, 117, 115, 104>>) @@
    \* Thirteen Orphans
    ("ThirteenOrphans" :>
        <<84, 104, 105, 114, 116, 101, 101, 110, 32, 79, 114, 112, 104, 97, 110, 115>>) @@
    \* Four Concealed Triplets
    ("FourConcealedTriplets" :>
        <<70, 111, 117, 114, 32, 67, 111, 110, 99, 101, 97, 108, 101, 100, 32, 84, 114, 105, 112, 108, 101, 116, 115>>) @@
    \* Big Three Dragons
    ("BigThreeDragons" :>
        <<66, 105, 103, 32, 84, 104, 114, 101, 101, 32, 68, 114, 97, 103, 111, 110, 115>>) @@
    \* Little Four Winds
    ("LittleFourWinds" :>
        <<76, 105, 116, 116, 108, 101, 32, 70, 111, 117, 114, 32, 87, 105, 110, 100, 115>>) @@
    \* Big Four Winds
    ("BigFourWinds" :>
        <<66, 105, 103, 32, 70, 111, 117, 114, 32, 87, 105, 110, 100, 115>>) @@
    \* All Honors
    ("AllHonors" :>
        <<65, 108, 108, 32, 72, 111, 110, 111, 114, 115>>) @@
    \* All Terminals
    ("AllTerminals" :>
        <<65, 108, 108, 32, 84, 101, 114, 109, 105, 110, 97, 108, 115>>) @@
    \* All Green
    ("AllGreen" :>
        <<65, 108, 108, 32, 71, 114, 101, 101, 110>>) @@
    \* Nine Gates
    ("NineGates" :>
        <<78, 105, 110, 101, 32, 71, 97, 116, 101, 115>>) @@
    \* Four Kans
    ("FourKans" :>
        <<70, 111, 117, 114, 32, 75, 97, 110, 115>>) @@
    \* Heavenly Hand
    ("HeavenlyHand" :>
        <<72, 101, 97, 118, 101, 110, 108, 121, 32, 72, 97, 110, 100>>) @@
    \* Hand Of Earth
    ("HandOfEarth" :>
        <<72, 97, 110, 100, 32, 79, 102, 32, 69, 97, 114, 116, 104>>)

\* the literals of get_ja, per kind
NamesJa ==
    ("ReadyHand" :>
        <<31435, 30452>>) @@
    ("SevenPairs" :>
        <<19971, 23550, 23376>>) @@
    ("NagashiMangan" :>
        <<27969, 12375, 28288, 36011>>) @@
    ("SelfPick" :>
        <<38272, 21069, 28165, 33258, 25720, 21644>>) @@
    ("OneShot" :>
        <<19968, 30330>>) @@
    ("LastTileFromTheWall" :>
        <<28023, 24213, 25736, 26376>>) @@
    ("LastDiscard" :>
        <<27827, 24213, 25736, 39770>>) @@
    ("DeadWallDraw" :>
        <<23994, 19978, 38283, 33457>>) @@
    ("RobbingAQuad" :>
        <<25654, 27091>>) @@
    ("DoubleReady" :>
        <<12480, 12502, 12523, 31435, 30452>>) @@
    ("NoPointsHand" :>
        <<24179, 21644>>) @@
    ("OneSetOfIdenticalSequences" :>
        <<19968, 30403, 21475>>) @@
    ("ThreeColorStraight" :>
        <<19977, 33394, 21516, 38918>>) @@
    ("Straight" :>
        <<19968, 27671, 36890, 36011>>) @@
    ("TwoSetsOfIdenticalSequences" :>
        <<20108, 30403, 21475>>) @@
    ("AllTripletHand" :>
        <<23550, 12293, 21644>>) @@
    ("ThreeClosedTriplets" :>
        <<19977, 26263, 21051>>) @@
    ("ThreeColorTriplets" :>
        <<19977, 33394, 21516, 21051>>) @@
    ("AllSimples" :>
        <<26029, 20040, 20061>>) @@
    ("HonorTilesPlayersWind" :>
        <<24441, 29260, 65288, 33258, 39080, 29260, 65289>>) @@
    ("HonorTilesPrevailingWind" :>
        <<24441, 29260, 65288, 22580, 39080, 29260, 65289>>) @@
    ("HonorTilesWhiteDragon" :>
        <<24441, 29260, 65288, 30333, 65289>>) @@
    ("HonorTilesGreenDragon" :>
        <<24441, 29260, 65288, 30332, 65289>>) @@
    ("HonorTilesRedDragon" :>
        <<24441, 29260, 65288, 20013, 65289>>) @@
    ("TerminalOrHonorInEachSet" :>
        <<28151, 20840, 24111, 20040, 20061>>) @@
    ("TerminalInEachSet" :>
        <<32020, 20840, 24111, 20040, 20061>>) @@
    ("AllTerminalsAndHonors" :>
        <<28151, 32769, 38957>>) @@
    ("LittleThreeDragons" :>
        <<23567, 19977, 20803>>) @@
    ("HalfFlush" :>
        <<28151, 19968, 33394>>) @@
    ("Flush" :>
        <<28165, 19968, 33394>>) @@
    ("ThirteenOrphans" :>
        <<22269, 22763, 28961, 21452>>) @@
    ("FourConcealedTriplets" :>
        <<22235, 26263, 21051>>) @@
    ("BigThreeDragons" :>
        <<22823, 19977, 20803>>) @@
    ("LittleFourWinds" :>
        <<23567, 22235, 21916>>) @@
    ("BigFourWinds" :>
        <<22823, 22235, 21916>>) @@
    ("AllHonors" :>
        <<23383, 19968, 33394>>) @@
    ("AllTerminals" :>
        <<28165, 32769, 38957>>) @@
    ("AllGreen" :>
        <<32209, 19968, 33394>>) @@
    ("NineGates" :>
        <<20061, 34030, 23453, 29128>>) @@
    ("FourKans" :>
        <<22235, 27091, 23376>>) @@
    ("HeavenlyHand" :>
        <<22825, 21644>>) @@
    ("HandOfEarth" :>
        <<22320, 21644>>)

\* get_en with `$str` for every openned_name!
get_en_plain(hand_kind, has_openned) == NamesEn[hand_kind]

get_en(hand_kind, has_openned) ==
    IF hand_kind \in OpennedNamed /\ has_openned
    THEN NamesEn[hand_kind] \o OpenSuffixEn
    ELSE NamesEn[hand_kind]

get_ja(hand_kind, has_openned) ==
    IF hand_kind \in OpennedNamed /\ has_openned
    THEN NamesJa[hand_kind] \o OpenSuffixJa
    ELSE NamesJa[hand_kind]

get(hand_kind, has_openned, lang) ==
    IF lang = "En" THEN get_en(hand_kind, has_openned)
    ELSE get_ja(hand_kind, has_openned)


\* every kind starts as ("Unknown", false, 0) and is then overwritten by
\* the result of its predicate; each predicate starts by taking its name from
\* get(kind, status.has_claimed_open, settings.display_lang) and returns it
\* with matched and han
check(a, status, settings) ==
    LET result ==
        ("ReadyHand" :> check_ready_hand(a, status, settings)) @@
        ("SevenPairs" :> check_seven_pairs(a, status, settings)) @@
        ("NagashiMangan" :> check_nagashi_mangan(a, status, settings)) @@
        ("SelfPick" :> check_self_pick(a, status, settings)) @@
        ("OneShot" :> check_one_shot(a, status, settings)) @@
        ("LastTileFromTheWall" :> check_last_tile_from_the_wall(a, status, settings)) @@
        ("LastDiscard" :> check_last_discard(a, status, settings)) @@
        ("DeadWallDraw" :> check_dead_wall_draw(a, status, settings)) @@
        ("RobbingAQuad" :> check_robbing_a_quad(a, status, settings)) @@
        ("DoubleReady" :> check_double_ready(a, status, settings)) @@
        ("NoPointsHand" :> check_no_points_hand(a, status, settings)) @@
        ("OneSetOfIdenticalSequences" :> check_one_set_of_identical_sequences(a, status, settings)) @@
        ("ThreeColorStraight" :> check_three_color_straight(a, status, settings)) @@
        ("Straight" :> check_straight(a, status, settings)) @@
        ("TwoSetsOfIdenticalSequences" :> check_two_sets_of_identical_sequences(a, status, settings)) @@
        ("AllTripletHand" :> check_all_triplet_hand(a, status, settings)) @@
        ("ThreeClosedTriplets" :> check_three_closed_triplets(a, status, settings)) @@
        ("ThreeColorTriplets" :> check_three_color_triplets(a, status, settings)) @@
        ("AllSimples" :> check_all_simples(a, status, settings)) @@
        ("HonorTilesPlayersWind" :> check_honor_tiles_players_wind(a, status, settings)) @@
        ("HonorTilesPrevailingWind" :> check_honor_tiles_prevailing_wind(a, status, settings)) @@
        ("HonorTilesWhiteDragon" :> check_honor_tiles_white_dragon(a, status, settings)) @@
        ("HonorTilesGreenDragon" :> check_honor_tiles_green_dragon(a, status, settings)) @@
        ("HonorTilesRedDragon" :> check_honor_tiles_red_dragon(a, status, settings)) @@
        ("TerminalOrHonorInEachSet" :> check_terminal_or_honor_in_each_set(a, status, settings)) @@
        ("TerminalInEachSet" :> check_terminal_in_each_set(a, status, settings)) @@
        ("AllTerminalsAndHonors" :> check_all_terminals_and_honors(a, status, settings)) @@
        ("LittleThreeDragons" :> check_little_three_dragons(a, status, settings)) @@
        ("HalfFlush" :> check_half_flush(a, status, settings)) @@
        ("Flush" :> check_flush(a, status, settings)) @@
        ("ThirteenOrphans" :> check_thirteen_orphans(a, status, settings)) @@
        ("FourConcealedTriplets" :> check_four_concealed_triplets(a, status, settings)) @@
        ("BigThreeDragons" :> check_big_three_dragons(a, status, settings)) @@
        ("LittleFourWinds" :> check_little_four_winds(a, status, settings)) @@
        ("BigFourWinds" :> check_big_four_winds(a, status, settings)) @@
        ("AllHonors" :> check_all_honors(a, status, settings)) @@
        ("AllTerminals" :> check_all_terminals(a, status, settings)) @@
        ("AllGreen" :> check_all_green(a, status, settings)) @@
        ("NineGates" :> check_nine_gates(a, status, settings)) @@
        ("FourKans" :> check_four_kans(a, status, settings)) @@
        ("HeavenlyHand" :> check_heavenly_hand(a, status, settings)) @@
        ("HandOfEarth" :> check_hand_of_earth(a, status, settings)) @@
        [k \in Kind |-> [matched |-> FALSE, han |-> 0]]
    IN [k \in Kind |->
           [name |-> get(k, status.has_claimed_open, settings.display_lang),
            matched |-> result[k].matched,
            han |-> result[k].han]] @@ <<>>

(***************************************************************************)
(* scoring/fu.rs.  A FuDetail is its name and its fu; the names are the    *)
(* Japanese literals of the source, written here in Latin letters.         *)
(***************************************************************************)
FuDetail(name, fu) == [name |-> name, fu |-> fu]
FuResult(total, details) == [total |-> total, details |-> details]

\* The sums, products and shifts below are u32.  TLC's integers are 32-bit
\* and signed and an overflow stops it, so a run that ends has kept every
\* value below 2^31 and none of them wrapped.
round_up_to_10(fu) == ((fu + 9) \div 10) * 10

is_terminal_or_honor(tile) ==
    tile \in {M1, M9, P1, P9, S1, S9, Z1, Z1 + 1, Z1 + 2, Z1 + 3, Z5, Z6, Z7}

\* Dragon::is_tile_type(tile).is_some()
IsDragonTile(tile) == \E d \in Dragons : DragonTile(d) = tile

\* Wind::is_tile_type(tile) == Some(w)
IsWindTile(tile, w) == tile = WindTile(w)

is_yakuhai_tile(tile, status) ==
    \/ IsDragonTile(tile)
    \/ IsWindTile(tile, status.player_wind)
    \/ IsWindTile(tile, status.prevailing_wind)

\* the two-sided test of is_pinfu for one run: the winning tile is its
\* first tile and not a 7, or its last tile and not a 3
IsTwoSidedOn(winning_tile, tiles) ==
    \/ winning_tile = tiles[1] /\ tiles[1] % 9 # 6
    \/ winning_tile = tiles[3] /\ tiles[3] % 9 # 2

is_pinfu(analyzer, hand, status) ==
    IF status.has_claimed_open THEN FALSE
    ELSE IF analyzer.form # "Normal" THEN FALSE
    ELSE IF Len(analyzer.sequential3) # 4 \/ Len(analyzer.same2) # 1 THEN FALSE
    ELSE IF \E k \in Idx(analyzer.same2) : is_yakuhai_tile(analyzer.same2[k][1], status)
         THEN FALSE
    ELSE IF hand.drawn = <<>> THEN FALSE
    ELSE \E k \in Idx(analyzer.sequential3) :
             IsTwoSidedOn(hand.drawn[1], analyzer.sequential3[k])

\* opened_triplet_tiles of calculate_mentsu_fu
OpenedTripletTiles(hand) ==
    {hand.opened[k].tiles[1] : k \in {j \in Idx(hand.opened) :
                                         hand.opened[j].category \in {"Pon", "Kan"}}}

\* Same3Detail without the open scoring of the triplet a ron completes
Same3DetailConcealed(tile, hand, status) ==
    IF is_terminal_or_honor(tile) THEN FuDetail("YaochuuhaiAnkou", 8)
    ELSE FuDetail("ChunchanhaiAnkou", 4)

\* the detail of a triplet of analyzer.same3
Same3Detail(tile, hand, status) ==
    LET is_concealed ==
            IF ~status.is_self_picked
            THEN IF hand.drawn # <<>> THEN hand.drawn[1] # tile ELSE TRUE
            ELSE TRUE
    IN IF is_concealed
       THEN IF is_terminal_or_honor(tile) THEN FuDetail("YaochuuhaiAnkou", 8)
            ELSE FuDetail("ChunchanhaiAnkou", 4)
       ELSE IF is_terminal_or_honor(tile) THEN FuDetail("YaochuuhaiMinkou", 4)
            ELSE FuDetail("ChunchanhaiMinkou", 2)

\* the detail of a called Pon or Kan
OpenedDetail(open) ==
    LET tile == open.tiles[1]
    IN IF open.category = "Pon"
       THEN IF is_terminal_or_honor(tile) THEN FuDetail("YaochuuhaiMinkou", 4)
            ELSE FuDetail("ChunchanhaiMinkou", 2)
       ELSE IF open.from = "Myself"
            THEN IF is_terminal_or_honor(tile) THEN FuDetail("YaochuuhaiAnkan", 32)
                 ELSE FuDetail("ChunchanhaiAnkan", 16)
            ELSE IF is_terminal_or_honor(tile) THEN FuDetail("YaochuuhaiMinkan", 16)
                 ELSE FuDetail("ChunchanhaiMinkan", 8)

\* the details calculate_mentsu_fu pushes
calculate_mentsu_fu(analyzer, hand, status) ==
    LET NotOpened(b) == b[1] \notin OpenedTripletTiles(hand)
        NotChi(o) == o.category # "Chi"
        closed == SelectSeq(analyzer.same3, NotOpened)
        melds == SelectSeq(hand.opened, NotChi)
    IN [k \in 1..Len(closed) |-> Same3Detail(closed[k][1], hand, status)]
       \o [k \in 1..Len(melds) |-> OpenedDetail(melds[k])]

RECURSIVE JantouFrom(_, _, _)
\* the loop of calculate_jantou_fu from the k-th pair on
JantouFrom(same2, k, status) ==
    IF k > Len(same2) THEN <<>>
    ELSE LET tile == same2[k][1]
         IN (IF IsDragonTile(tile) THEN <<FuDetail("SangenpaiJantou", 2)>> ELSE <<>>)
            \o (IF IsWindTile(tile, status.player_wind)
                THEN <<FuDetail("JikazehaiJantou", 2)>> ELSE <<>>)
            \o (IF IsWindTile(tile, status.prevailing_wind)
                THEN <<FuDetail("BakazehaiJantou", 2)>> ELSE <<>>)
            \o JantouFrom(same2, k + 1, status)

calculate_jantou_fu(analyzer, status) == JantouFrom(analyzer.same2, 1, status)

\* a run of analyzer.sequential3 at which calculate_machi_fu returns
IsMachiRun(tiles, wt) ==
    \/ wt = tiles[2]
    \/ wt = tiles[3] /\ tiles[3] % 9 = 2
    \/ wt = tiles[1] /\ tiles[1] % 9 = 6

calculate_machi_fu(analyzer, hand) ==
    IF hand.drawn = <<>> THEN <<>>
    ELSE LET wt == hand.drawn[1]
             runs == {k \in Idx(analyzer.sequential3) :
                         IsMachiRun(analyzer.sequential3[k], wt)}
         IN IF \E k \in Idx(analyzer.same2) : analyzer.same2[k][1] = wt
            THEN <<FuDetail("TankiMachi", 2)>>
            ELSE IF runs = {} THEN <<>>
            ELSE IF wt = analyzer.sequential3[Least(runs)][2]
                 THEN <<FuDetail("KanchanMachi", 2)>>
            ELSE <<FuDetail("PenchanMachi", 2)>>

calculate_tsumo_fu(analyzer, status) ==
    IF status.is_self_picked THEN <<FuDetail("Tsumo", 2)>> ELSE <<>>

calculate_menzen_ron_fu(status) ==
    IF ~status.has_claimed_open /\ ~status.is_self_picked
    THEN <<FuDetail("MenzenKafu", 10)>> ELSE <<>>

RECURSIVE SumFu(_, _)
\* details.iter().map(|d| d.fu).sum() from the k-th detail on
SumFu(details, k) ==
    IF k > Len(details) THEN 0 ELSE details[k].fu + SumFu(details, k + 1)

\* calculate_fu without its 30 for a raw total of 20 on an open ron
calculate_fu_rounding_only(analyzer, hand, status) ==
    IF analyzer.form = "SevenPairs"
    THEN FuResult(25, <<FuDetail("Chiitoitsu", 25)>>)
    ELSE IF analyzer.form = "ThirteenOrphans"
    THEN FuResult(30, <<FuDetail("KokushiMusou", 30)>>)
    ELSE LET details ==
                 <<FuDetail("Fuutei", 20)>>
                 \o calculate_mentsu_fu(analyzer, hand, status)
                 \o calculate_jantou_fu(analyzer, status)
                 \o calculate_machi_fu(analyzer, hand)
                 \o calculate_tsumo_fu(analyzer, status)
                 \o calculate_menzen_ron_fu(status)
             raw_total == SumFu(details, 1)
         IN IF is_pinfu(analyzer, hand, status) /\ status.is_self_picked
            THEN FuResult(20, <<FuDetail("PinfuTsumo", 20)>>)
            ELSE FuResult(round_up_to_10(raw_total), details)

calculate_fu(analyzer, hand, status) ==
    IF analyzer.form = "SevenPairs"
    THEN FuResult(25, <<FuDetail("Chiitoitsu", 25)>>)
    ELSE IF analyzer.form = "ThirteenOrphans"
    THEN FuResult(30, <<FuDetail("KokushiMusou", 30)>>)
    ELSE LET details ==
                 <<FuDetail("Fuutei", 20)>>
                 \o calculate_mentsu_fu(analyzer, hand, status)
                 \o calculate_jantou_fu(analyzer, status)
                 \o calculate_machi_fu(analyzer, hand)
                 \o calculate_tsumo_fu(analyzer, status)
                 \o calculate_menzen_ron_fu(status)
             raw_total == SumFu(details, 1)
         IN IF is_pinfu(analyzer, hand, status) /\ status.is_self_picked
            THEN FuResult(20, <<FuDetail("PinfuTsumo", 20)>>)
            ELSE IF raw_total = 20 /\ ~status.is_self_picked /\ status.has_claimed_open
            THEN FuResult(30, details)
            ELSE FuResult(round_up_to_10(raw_total), details)

(***************************************************************************)
(* scoring/score.rs                                                        *)
(***************************************************************************)
\* Kind::iter(): the kinds in the order of the enum
KindIter ==
    <<"ReadyHand", "SevenPairs", "NagashiMangan", "SelfPick", "OneShot",
      "LastTileFromTheWall", "LastDiscard", "DeadWallDraw", "RobbingAQuad",
      "DoubleReady", "NoPointsHand", "OneSetOfIdenticalSequences",
      "ThreeColorStraight", "Straight", "TwoSetsOfIdenticalSequences",
      "AllTripletHand", "ThreeClosedTriplets", "ThreeColorTriplets",
      "AllSimples", "HonorTilesPlayersWind", "HonorTilesPrevailingWind",
      "HonorTilesWhiteDragon", "HonorTilesGreenDragon", "HonorTilesRedDragon",
      "TerminalOrHonorInEachSet", "TerminalInEachSet", "AllTerminalsAndHonors",
      "LittleThreeDragons", "HalfFlush", "Flush", "ThirteenOrphans",
      "FourConcealedTriplets", "BigThreeDragons", "LittleFourWinds",
      "BigFourWinds", "AllHonors", "AllTerminals", "AllGreen", "NineGates",
      "FourKans", "HeavenlyHand", "HandOfEarth">>

\* An order in which a HashMap<Kind, _> hands out its entries: the hasher is
\* seeded per map, so the order is any permutation of the kinds.  The seed
\* stands for the permutation i |-> i * seed mod (Kind::COUNT + 1), which is
\* one since Kind::COUNT + 1 is prime; seed 1 is the order of the enum.
IterOrder(seed) ==
    [i \in 1..Len(KindIter) |-> KindIter[(i * seed) % (Len(KindIter) + 1)]]

\* Ordering of a.cmp(&b) for two u32: -1 Less, 0 Equal, 1 Greater
CmpNum(a, b) == IF a < b THEN -1 ELSE IF a = b THEN 0 ELSE 1

\* Ordering of a.cmp(&b) for two str: at the first place they differ, or by
\* length when one is a prefix of the other
CmpStr(a, b) ==
    LET n == IF Len(a) < Len(b) THEN Len(a) ELSE Len(b)
        differ == {i \in 1..n : a[i] # b[i]}
    IN IF differ = {} THEN CmpNum(Len(a), Len(b))
       ELSE CmpNum(a[Least(differ)], b[Least(differ)])

\* the closure of list.sort_by without its `.then(a.0.cmp(&b.0))`
CmpHanOnly(a, b) == CmpNum(b[2], a[2])

\* the closure of list.sort_by: b.1.cmp(&a.1).then(a.0.cmp(&b.0))
CmpYaku(a, b) ==
    IF CmpNum(b[2], a[2]) # 0 THEN CmpNum(b[2], a[2]) ELSE CmpStr(a[1], b[1])

RECURSIVE SortFrom(_, _, _)
\* sort_by is stable: the k-th element goes behind the sorted elements that
\* are not greater than it
SortFrom(list, k, sorted) ==
    IF k > Len(list) THEN sorted
    ELSE LET x == list[k]
             p == Cardinality({i \in 1..Len(sorted) : CmpYaku(sorted[i], x) <= 0})
         IN SortFrom(list, k + 1,
                     SubSeq(sorted, 1, p) \o <<x>> \o SubSeq(sorted, p + 1, Len(sorted)))

sort_by(list) == SortFrom(list, 1, <<>>)

\* extract_yaku_list without its `has_yakuman && *han < 13` skip
extract_yaku_list_keeping_all(yaku_result, order) ==
    LET Listed(k) == yaku_result[k].matched /\ yaku_result[k].han > 0
        kinds == SelectSeq(order, Listed)
    IN sort_by([i \in 1..Len(kinds) |->
                   <<yaku_result[kinds[i]].name, yaku_result[kinds[i]].han>>])

\* extract_yaku_list(&yaku_result); order is the order the map iterates in
extract_yaku_list(yaku_result, order) ==
    LET has_yakuman == \E k \in DOMAIN yaku_result :
                           yaku_result[k].matched /\ yaku_result[k].han >= 13
        Listed(k) == /\ yaku_result[k].matched /\ yaku_result[k].han > 0
                     /\ ~(has_yakuman /\ yaku_result[k].han < 13)
        kinds == SelectSeq(order, Listed)
    IN sort_by([i \in 1..Len(kinds) |->
                   <<yaku_result[kinds[i]].name, yaku_result[kinds[i]].han>>])

\* determine_rank with `han == 4` for its `han == 4 && fu >= 30`
determine_rank_any_fu(han, fu, has_yakuman) ==
    IF has_yakuman \/ han >= 13 THEN "Yakuman"
    ELSE IF han >= 11 THEN "Sanbaiman"
    ELSE IF han >= 8 THEN "Baiman"
    ELSE IF han >= 6 THEN "Haneman"
    ELSE IF han >= 5 THEN "Mangan"
    ELSE IF han = 4 THEN "Mangan"
    ELSE IF han = 3 /\ fu >= 60 THEN "Mangan"
    ELSE "Normal"

determine_rank(han, fu, has_yakuman) ==
    IF has_yakuman \/ han >= 13 THEN "Yakuman"
    ELSE IF han >= 11 THEN "Sanbaiman"
    ELSE IF han >= 8 THEN "Baiman"
    ELSE IF han >= 6 THEN "Haneman"
    ELSE IF han >= 5 THEN "Mangan"
    ELSE IF han = 4 /\ fu >= 30 THEN "Mangan"
    ELSE IF han = 3 /\ fu >= 60 THEN "Mangan"
    ELSE "Normal"

\* 1 << n, for the shift counts below 31
Shl1(n) == 2 ^ n

\* calculate_base_points paying 8000 for each 13 han of a Yakuman rank
calculate_base_points_per_yakuman(han, fu, rank) ==
    CASE rank = "Yakuman" -> IF han >= 26 THEN 8000 * (han \div 13) ELSE 8000
      [] rank = "Sanbaiman" -> 6000
      [] rank = "Baiman" -> 4000
      [] rank = "Haneman" -> 3000
      [] rank = "Mangan" -> 2000
      [] rank = "Normal" ->
             LET base == fu * Shl1(han + 2)
             IN IF base > 2000 THEN 2000 ELSE base

calculate_base_points(han, fu, rank) ==
    CASE rank = "Yakuman" -> 8000
      [] rank = "Sanbaiman" -> 6000
      [] rank = "Baiman" -> 4000
      [] rank = "Haneman" -> 3000
      [] rank = "Mangan" -> 2000
      [] rank = "Normal" ->
             LET base == fu * Shl1(han + 2)
             IN IF base > 2000 THEN 2000 ELSE base

\* round_up_to_100 rounding to the nearest hundred
round_to_nearest_100(points) == ((points + 50) \div 100) * 100

round_up_to_100(points) == ((points + 99) \div 100) * 100

RECURSIVE SumHan(_, _)
\* yaku_list.iter().map(|(_, h)| h).sum() from the k-th entry on
SumHan(yaku_list, k) ==
    IF k > Len(yaku_list) THEN 0
    ELSE yaku_list[k][2] + SumHan(yaku_list, k + 1)

\* Result<Option<ScoreResult>>: Ok(None) and Ok(Some(result)); no callee in
\* these sources returns an Err for calculate_score to pass on
Ok(v) == [ok |-> TRUE, value |-> v]
None == <<>>
Some(v) == <<v>>

\* calculate_score without its `if yaku_list.is_empty() { return Ok(None); }`
calculate_score_always_some(analyzer, hand, status, settings, order) ==
    LET yaku_result == check(analyzer, status, settings)
        yaku_list == extract_yaku_list(yaku_result, order)
        han == SumHan(yaku_list, 1)
        has_yakuman == \E k \in 1..Len(yaku_list) : yaku_list[k][2] >= 13
        fu_result == calculate_fu(analyzer, hand, status)
        fu == fu_result.total
        rank == determine_rank(han, fu, has_yakuman)
        base_points == calculate_base_points(han, fu, rank)
    IN Ok(Some(
           [han |-> han, fu |-> fu, rank |-> rank,
            dealer_ron |-> round_up_to_100(base_points * 6),
            dealer_tsumo_all |-> round_up_to_100(base_points * 2),
            non_dealer_ron |-> round_up_to_100(base_points * 4),
            non_dealer_tsumo_dealer |-> round_up_to_100(base_points * 2),
            non_dealer_tsumo_non_dealer |-> round_up_to_100(base_points),
            yaku_list |-> yaku_list,
            fu_result |-> fu_result]))

calculate_score(analyzer, hand, status, settings, order) ==
    LET yaku_result == check(analyzer, status, settings)
        yaku_list == extract_yaku_list(yaku_result, order)
        han == SumHan(yaku_list, 1)
        has_yakuman == \E k \in 1..Len(yaku_list) : yaku_list[k][2] >= 13
        fu_result == calculate_fu(analyzer, hand, status)
        fu == fu_result.total
        rank == determine_rank(han, fu, has_yakuman)
        base_points == calculate_base_points(han, fu, rank)
    IN IF yaku_list = <<>> THEN Ok(None)
       ELSE Ok(Some(
                [han |-> han, fu |-> fu, rank |-> rank,
                 dealer_ron |-> round_up_to_100(base_points * 6),
                 dealer_tsumo_all |-> round_up_to_100(base_points * 2),
                 non_dealer_ron |-> round_up_to_100(base_points * 4),
                 non_dealer_tsumo_dealer |-> round_up_to_100(base_points * 2),
                 non_dealer_tsumo_non_dealer |-> round_up_to_100(base_points),
                 yaku_list |-> yaku_list,
                 fu_result |-> fu_result]))

(***************************************************************************)
(* The state machine: a caller builds a hand from a text, has it analysed, *)
(* and hands a 13-tile hand one more tile.                                 *)
(***************************************************************************)
VARIABLES
    hand,       \* the Hand in use
    by_form,    \* per form, Option: what new_by_form returned for the hand
    analyzer,   \* Option: what HandAnalyzer::new returned for the hand
    before,     \* Option: the shanten HandAnalyzer::new returned before the draw
    status,     \* the Status the caller passes to checker::check
    settings,   \* the Settings the caller passes to checker::check
    yaku,       \* Option: what checker::check returned for the analysis
    score,      \* Option: what calculate_score returned for the analysis
    fu,         \* Option: what calculate_fu returned for the analysis
    call,       \* Option: the arguments of a function called on its own
    ret         \* Option: what the function called on its own returned

vars == <<hand, by_form, analyzer, before, status, settings, yaku, score, fu,
          call, ret>>

Forms == {"SevenPairs", "ThirteenOrphans", "Normal"}

\* how many of the hand texts the caller starts from
NumHands == 11

HandTexts == <<
    \* 89m123p456s111z22z
    <<"8", "9", "m", "1", "2", "3", "p", "4", "5", "6", "s", "1", "1", "1", "z", "2", "2", "z">>,
    \* 1113335m123p111z 3m
    <<"1", "1", "1", "3", "3", "3", "5", "m", "1", "2", "3", "p", "1", "1", "1", "z", " ", "3", "m">>,
    \* 112233m456456p7z 7z
    <<"1", "1", "2", "2", "3", "3", "m", "4", "5", "6", "4", "5", "6", "p", "7", "z", " ", "7", "z">>,
    \* 19m19p19s1234567z
    <<"1", "9", "m", "1", "9", "p", "1", "9", "s", "1", "2", "3", "4", "5", "6", "7", "z">>,
    \* 123m456p3s 2222m 777z 3s
    <<"1", "2", "3", "m", "4", "5", "6", "p", "3", "s", " ", "2", "2", "2", "2", "m", " ", "7", "7", "7", "z", " ", "3", "s">>,
    \* 333m456p1789s 333z 1s
    <<"3", "3", "3", "m", "4", "5", "6", "p", "1", "7", "8", "9", "s", " ", "3", "3", "3", "z", " ", "1", "s">>,
    \* 123m444p789s1112z
    <<"1", "2", "3", "m", "4", "4", "4", "p", "7", "8", "9", "s", "1", "1", "1", "2", "z">>,
    \* 147m258p369s1234z
    <<"1", "4", "7", "m", "2", "5", "8", "p", "3", "6", "9", "s", "1", "2", "3", "4", "z">>,
    \* 19m19p11s1234567z 5m
    <<"1", "9", "m", "1", "9", "p", "1", "1", "s", "1", "2", "3", "4", "5", "6", "7", "z", " ", "5", "m">>,
    \* 1199m1199p258s12z 3z
    <<"1", "1", "9", "9", "m", "1", "1", "9", "9", "p", "2", "5", "8", "s", "1", "2", "z", " ", "3", "z">>,
    \* 123m456p78s11z 123s 9s
    <<"1", "2", "3", "m", "4", "5", "6", "p", "7", "8", "s", "1", "1", "z", " ", "1", "2", "3", "s", " ", "9", "s">>,
    \* 1199m19p19s12345z
    <<"1", "1", "9", "9", "m", "1", "9", "p", "1", "9", "s", "1", "2", "3", "4", "5", "z">>
>>

NotAnalysed == [f \in Forms |-> <<>>]

Init ==
    /\ \E k \in 1..NumHands : hand = Hand_from(HandTexts[k])
    /\ by_form = NotAnalysed
    /\ analyzer = <<>>
    /\ before = <<>>
    /\ status = Status_new
    /\ settings = Settings_new
    /\ yaku = <<>>
    /\ score = <<>>
    /\ fu = <<>>
    /\ call = <<>>
    /\ ret = <<>>

\* HandAnalyzer::new(&hand): its three calls of new_by_form, then its choice
Analyze ==
    /\ analyzer = <<>>
    /\ by_form' = [f \in Forms |-> <<new_by_form(hand, f)>>]
    /\ analyzer' = <<SelectForm(by_form'["SevenPairs"][1],
                                by_form'["ThirteenOrphans"][1],
                                by_form'["Normal"][1])>>
    /\ UNCHANGED <<hand, before, status, settings, yaku, score, fu, call, ret>>

\* the 13-tile hand is rebuilt with a drawn tile it holds fewer than four
\* times; the caller remembers the shanten HandAnalyzer::new gave, if it ran
Draw(t) ==
    /\ hand.drawn = <<>>
    /\ SumOf(summarize_tiles(hand)) = 13
    /\ summarize_tiles(hand)[t] < 4
    /\ hand' = Hand_new_with_opened(hand.tiles, hand.opened, <<t>>)
    /\ before' = IF analyzer = <<>> THEN <<>> ELSE <<analyzer[1].shanten>>
    /\ by_form' = NotAnalysed
    /\ analyzer' = <<>>
    /\ yaku' = <<>>
    /\ UNCHANGED <<status, settings, score, fu, call, ret>>

Next ==
    \/ Analyze
    \/ \E t \in TileType : Draw(t)

Spec == Init /\ [][Next]_vars

(***************************************************************************)
(* The two closed-form analyses on their own: a caller of new_by_form with *)
(* Form::SevenPairs or Form::ThirteenOrphans.  The texts hold at most      *)
(* seven tile types twice or more, so the u32 `7 - pair` of                *)
(* calc_seven_pairs does not wrap.                                         *)
(***************************************************************************)
ClosedForms == {"SevenPairs", "ThirteenOrphans"}

\* how many of the texts below the caller starts from
NumFormHands == 7

FormTexts == <<
    \* 1122m3344p5555s1z 1z
    <<"1", "1", "2", "2", "m", "3", "3", "4", "4", "p", "5", "5", "5", "5", "s", "1", "z", " ", "1", "z">>,
    \* 1199m1199p1199s1111z
    <<"1", "1", "9", "9", "m", "1", "1", "9", "9", "p", "1", "1", "9", "9", "s", "1", "1", "1", "1", "z">>,
    \* 226699m99p228s66z 1z
    <<"2", "2", "6", "6", "9", "9", "m", "9", "9", "p", "2", "2", "8", "s", "6", "6", "z", " ", "1", "z">>,
    \* 226699m99p222s66z 1z
    <<"2", "2", "6", "6", "9", "9", "m", "9", "9", "p", "2", "2", "2", "s", "6", "6", "z", " ", "1", "z">>,
    \* 19m19p11s1234567z 5m
    <<"1", "9", "m", "1", "9", "p", "1", "1", "s", "1", "2", "3", "4", "5", "6", "7", "z", " ", "5", "m">>,
    \* 19m19p19s1234567z
    <<"1", "9", "m", "1", "9", "p", "1", "9", "s", "1", "2", "3", "4", "5", "6", "7", "z">>,
    \* 1122m3344p5566s7z
    <<"1", "1", "2", "2", "m", "3", "3", "4", "4", "p", "5", "5", "6", "6", "s", "7", "z">>,
    \* 1199m19p19s12345z
    <<"1", "1", "9", "9", "m", "1", "9", "p", "1", "9", "s", "1", "2", "3", "4", "5", "z">>
>>

FormInit ==
    /\ \E k \in 1..NumFormHands : hand = Hand_from(FormTexts[k])
    /\ by_form = NotAnalysed
    /\ analyzer = <<>>
    /\ before = <<>>
    /\ status = Status_new
    /\ settings = Settings_new
    /\ yaku = <<>>
    /\ score = <<>>
    /\ fu = <<>>
    /\ call = <<>>
    /\ ret = <<>>

\* HandAnalyzer::new_by_form(&hand, f)
AnalyzeByForm(f) ==
    /\ by_form[f] = <<>>
    /\ by_form' = [by_form EXCEPT ![f] = <<new_by_form(hand, f)>>]
    /\ UNCHANGED <<hand, analyzer, before, status, settings, yaku, score, fu, call, ret>>

FormNext ==
    \/ \E f \in ClosedForms : AnalyzeByForm(f)
    \/ \E t \in TileType : Draw(t)

FormSpec == FormInit /\ [][FormNext]_vars

(***************************************************************************)
(* A caller of checker::check: the hand is analysed by HandAnalyzer::new,  *)
(* the caller fills in a Status and a Settings, and check runs on them.    *)
(***************************************************************************)
\* how many of the texts below the caller starts from
NumCheckHands == 5

CheckTexts == <<
    \* 123m444p789s1112z
    <<"1", "2", "3", "m", "4", "4", "4", "p", "7", "8", "9", "s", "1", "1", "1", "2", "z">>,
    \* 123456789m1199p 9p
    <<"1", "2", "3", "4", "5", "6", "7", "8", "9", "m", "1", "1", "9", "9", "p", " ", "9", "p">>,
    \* 19m19p19s1234567z 1m
    <<"1", "9", "m", "1", "9", "p", "1", "9", "s", "1", "2", "3", "4", "5", "6", "7", "z", " ", "1", "m">>,
    \* 147m258p369s1234z
    <<"1", "4", "7", "m", "2", "5", "8", "p", "3", "6", "9", "s", "1", "2", "3", "4", "z">>,
    \* 89m123p456s111z22z
    <<"8", "9", "m", "1", "2", "3", "p", "4", "5", "6", "s", "1", "1", "1", "z", "2", "2", "z">>,
    \* 111m222p333s555z66z
    <<"1", "1", "1", "m", "2", "2", "2", "p", "3", "3", "3", "s", "5", "5", "5", "z", "6", "6", "z">>,
    \* 112233m456456p7z 7z
    <<"1", "1", "2", "2", "3", "3", "m", "4", "5", "6", "4", "5", "6", "p", "7", "z", " ", "7", "z">>,
    \* 123m456p3s 2222m 777z 3s
    <<"1", "2", "3", "m", "4", "5", "6", "p", "3", "s", " ", "2", "2", "2", "2", "m", " ", "7", "7", "7", "z", " ", "3", "s">>,
    \* 234567m234567p5s
    <<"2", "3", "4", "5", "6", "7", "m", "2", "3", "4", "5", "6", "7", "p", "5", "s">>,
    \* 1112345678999m 5m
    <<"1", "1", "1", "2", "3", "4", "5", "6", "7", "8", "9", "9", "9", "m", " ", "5", "m">>
>>

\* the bool fields of Status
Flags ==
    {"has_claimed_ready", "has_claimed_open", "is_self_picked", "is_one_shot",
     "is_last_tile_from_the_wall", "is_last_discard", "is_dead_wall_draw",
     "is_robbing_a_quad", "is_double_ready", "is_dealer", "is_first_turn",
     "is_nagashi_mangan"}

\* how many of the flags the caller sets at once
MaxFlags == 2

FlagSets == {F \in SUBSET Flags : Cardinality(F) <= MaxFlags}

\* the largest kan_count the caller reports
MaxKanCount == 4

Langs == {"En", "Ja"}

\* the rounds the caller of check is in
PrevailingWinds == {"East", "South"}

\* a Status with the flags of F set
StatusOf(F, player_wind, prevailing_wind, kan_count) ==
    [has_claimed_ready |-> "has_claimed_ready" \in F,
     has_claimed_open |-> "has_claimed_open" \in F,
     is_self_picked |-> "is_self_picked" \in F,
     is_one_shot |-> "is_one_shot" \in F,
     player_wind |-> player_wind,
     prevailing_wind |-> prevailing_wind,
     is_last_tile_from_the_wall |-> "is_last_tile_from_the_wall" \in F,
     is_last_discard |-> "is_last_discard" \in F,
     is_dead_wall_draw |-> "is_dead_wall_draw" \in F,
     is_robbing_a_quad |-> "is_robbing_a_quad" \in F,
     is_double_ready |-> "is_double_ready" \in F,
     is_dealer |-> "is_dealer" \in F,
     is_first_turn |-> "is_first_turn" \in F,
     is_nagashi_mangan |-> "is_nagashi_mangan" \in F,
     kan_count |-> kan_count]

CheckInit ==
    /\ \E k \in 1..NumCheckHands : hand = Hand_from(CheckTexts[k])
    /\ by_form = NotAnalysed
    /\ analyzer = <<>>
    /\ before = <<>>
    /\ status = Status_new
    /\ settings = Settings_new
    /\ yaku = <<>>
    /\ score = <<>>
    /\ fu = <<>>
    /\ call = <<>>
    /\ ret = <<>>

\* checker::check(&analyzer, &hand, &status, &settings), the caller having
\* filled in the Status and the Settings
Check ==
    /\ analyzer # <<>>
    /\ yaku = <<>>
    /\ \E F \in FlagSets, player_wind \in Winds, prevailing_wind \in PrevailingWinds,
          kan_count \in 0..MaxKanCount, display_lang \in Langs,
          opened_all_simples \in BOOLEAN :
           /\ status' = StatusOf(F, player_wind, prevailing_wind, kan_count)
           /\ settings' = [display_lang |-> display_lang,
                           opened_all_simples |-> opened_all_simples]
           /\ yaku' = <<check(analyzer[1], status', settings')>>
    /\ UNCHANGED <<hand, by_form, analyzer, before, score, fu, call, ret>>

CheckNext ==
    \/ Analyze
    \/ Check

CheckSpec == CheckInit /\ [][CheckNext]_vars

(***************************************************************************)
(* A caller of calculate_score and of calculate_fu: the hand is analysed   *)
(* by HandAnalyzer::new, calculate_score runs on a Status and a Settings   *)
(* the caller filled in, and calculate_fu runs on the same Status.         *)
(***************************************************************************)
\* how many of the texts below the caller starts from
NumScoreHands == 16

ScoreTexts == <<
    \* 123456789m1199p 9p
    <<"1", "2", "3", "4", "5", "6", "7", "8", "9", "m", "1", "1", "9", "9", "p", " ", "9", "p">>,
    \* 19m19p19s1234567z 1m
    <<"1", "9", "m", "1", "9", "p", "1", "9", "s", "1", "2", "3", "4", "5", "6", "7", "z", " ", "1", "m">>,
    \* 111m222p333s555z66z
    <<"1", "1", "1", "m", "2", "2", "2", "p", "3", "3", "3", "s", "5", "5", "5", "z", "6", "6", "z">>,
    \* 112233m456456p7z 7z
    <<"1", "1", "2", "2", "3", "3", "m", "4", "5", "6", "4", "5", "6", "p", "7", "z", " ", "7", "z">>,
    \* 1112345678999m 5m
    <<"1", "1", "1", "2", "3", "4", "5", "6", "7", "8", "9", "9", "9", "m", " ", "5", "m">>,
    \* 2334499m456p678s 5m
    <<"2", "3", "3", "4", "4", "9", "9", "m", "4", "5", "6", "p", "6", "7", "8", "s", " ", "5", "m">>,
    \* 1399m456p234678s 2m
    <<"1", "3", "9", "9", "m", "4", "5", "6", "p", "2", "3", "4", "6", "7", "8", "s", " ", "2", "m">>,
    \* 123m5p 111z 222s 999p 5p
    <<"1", "2", "3", "m", "5", "p", " ", "1", "1", "1", "z", " ", "2", "2", "2", "s", " ", "9", "9", "9", "p", " ", "5", "p">>,
    \* 123m456p3s 2222m 777z 3s
    <<"1", "2", "3", "m", "4", "5", "6", "p", "3", "s", " ", "2", "2", "2", "2", "m", " ", "7", "7", "7", "z", " ", "3", "s">>,
    \* 34456m456p678s99s 5m
    <<"3", "4", "4", "5", "6", "m", "4", "5", "6", "p", "6", "7", "8", "s", "9", "9", "s", " ", "5", "m">>,
    \* 22m11456s777z 999p 2m
    <<"2", "2", "m", "1", "1", "4", "5", "6", "s", "7", "7", "7", "z", " ", "9", "9", "9", "p", " ", "2", "m">>,
    \* 123m123p12789s11z 3s
    <<"1", "2", "3", "m", "1", "2", "3", "p", "1", "2", "7", "8", "9", "s", "1", "1", "z", " ", "3", "s">>,
    \* 12399m123p12378s 9s
    <<"1", "2", "3", "9", "9", "m", "1", "2", "3", "p", "1", "2", "3", "7", "8", "s", " ", "9", "s">>,
    \* 12345678m11222z 9m
    <<"1", "2", "3", "4", "5", "6", "7", "8", "m", "1", "1", "2", "2", "2", "z", " ", "9", "m">>,
    \* 123m444p789s1112z
    <<"1", "2", "3", "m", "4", "4", "4", "p", "7", "8", "9", "s", "1", "1", "1", "2", "z">>,
    \* 123m456p78s11z 123s 9s
    <<"1", "2", "3", "m", "4", "5", "6", "p", "7", "8", "s", "1", "1", "z", " ", "1", "2", "3", "s", " ", "9", "s">>,
    \* 234567m234567p5s
    <<"2", "3", "4", "5", "6", "7", "m", "2", "3", "4", "5", "6", "7", "p", "5", "s">>
>>

\* the player wind and the prevailing wind of the scored rounds
ScoreWinds ==
    {<<"East", "East">>, <<"East", "South">>, <<"South", "East">>, <<"West", "North">>}

\* how many hasher seeds the HashMap of check is built with
NumSeeds == 2

\* the flags the caller of calculate_score sets
ScoreFlags ==
    {"has_claimed_ready", "has_claimed_open", "is_self_picked", "is_one_shot",
     "is_nagashi_mangan"}

ScoreFlagSets == {F \in FlagSets : F \subseteq ScoreFlags}

ScoreInit ==
    /\ \E k \in 1..NumScoreHands : hand = Hand_from(ScoreTexts[k])
    /\ by_form = NotAnalysed
    /\ analyzer = <<>>
    /\ before = <<>>
    /\ status = Status_new
    /\ settings = Settings_new
    /\ yaku = <<>>
    /\ score = <<>>
    /\ fu = <<>>
    /\ call = <<>>
    /\ ret = <<>>

\* calculate_score(&analyzer, &hand, &status, &settings), the caller having
\* filled in the Status and the Settings
CalculateScore ==
    /\ analyzer # <<>>
    /\ score = <<>>
    /\ \E F \in ScoreFlagSets, winds \in ScoreWinds, kan_count \in {0, MaxKanCount},
          display_lang \in Langs, opened_all_simples \in BOOLEAN,
          seed \in 1..NumSeeds :
           /\ status' = StatusOf(F, winds[1], winds[2], kan_count)
           /\ settings' = [display_lang |-> display_lang,
                           opened_all_simples |-> opened_all_simples]
           /\ score' = <<calculate_score(analyzer[1], hand, status', settings',
                                         IterOrder(seed))>>
    /\ UNCHANGED <<hand, by_form, analyzer, before, yaku, fu, call, ret>>

\* calculate_fu(&analyzer, &hand, &status)
CalculateFu ==
    /\ score # <<>>
    /\ fu = <<>>
    /\ fu' = <<calculate_fu(analyzer[1], hand, status)>>
    /\ UNCHANGED <<hand, by_form, analyzer, before, status, settings, yaku, score, call, ret>>

ScoreNext ==
    \/ Analyze
    \/ CalculateScore
    \/ CalculateFu

ScoreSpec == ScoreInit /\ [][ScoreNext]_vars

(***************************************************************************)
(* determine_rank called on its own: calculate_score passes it the han sum *)
(* of the yaku list, the fu total and whether the list holds a yakuman,    *)
(* three values that any u32, u32 and bool can be.                         *)
(***************************************************************************)
\* the largest han and the largest fu determine_rank is called with
MaxHan == 14

MaxFu == 70

RankInit ==
    /\ hand = Hand_from(ScoreTexts[1])
    /\ by_form = NotAnalysed
    /\ analyzer = <<>>
    /\ before = <<>>
    /\ status = Status_new
    /\ settings = Settings_new
    /\ yaku = <<>>
    /\ score = <<>>
    /\ fu = <<>>
    /\ \E han \in 0..MaxHan, total \in 0..MaxFu, has_yakuman \in BOOLEAN :
           call = <<[han |-> han, fu |-> total, has_yakuman |-> has_yakuman]>>
    /\ ret = <<>>

\* determine_rank(han, fu, has_yakuman)
DetermineRank ==
    /\ call # <<>>
    /\ ret = <<>>
    /\ ret' = <<determine_rank(call[1].han, call[1].fu, call[1].has_yakuman)>>
    /\ UNCHANGED <<hand, by_form, analyzer, before, status, settings, yaku, score, fu, call>>

RankNext == DetermineRank

RankSpec == RankInit /\ [][RankNext]_vars

(***************************************************************************)
(* A caller that parses a hand string in the canonical short form with     *)
(* Hand::from and writes the Hand back with to_short_string.               *)
(***************************************************************************)
\* the most tiles of the concealed group, and the most called melds
MaxConcealed == 3

MaxMelds == 2

\* the tiles the concealed group and the drawn tile are taken from
ShortTiles == {M1, M1 + 1, M9, P1, Z1, Z7}

\* the sorted concealed groups of one to MaxConcealed tiles
ConcealedGroups ==
    UNION {{g \in [1..n -> ShortTiles] : \A k \in 1..(n - 1) : g[k] <= g[k + 1]} :
           n \in 1..MaxConcealed}

\* a Chi, a Pon and a Kan, as the tiles their group names
MeldGroups == {<<M1, M1 + 1, M1 + 2>>, <<Z1, Z1, Z1>>, <<P9, P9, P9, P9>>}

MeldLists == UNION {[1..n -> MeldGroups] : n \in 0..MaxMelds}

\* the digits of the tiles of one suit of a sorted group, then the letter
SuitRun(tiles, suit) ==
    LET held == SelectSeq(tiles, LAMBDA t : SuitOf(t) = suit)
    IN IF held = <<>> THEN <<>>
       ELSE [k \in 1..Len(held) |-> Digits[NumOf(held[k]) + 1]] \o <<SuitChars[suit + 1]>>

\* a sorted group in the short form: 1, 2, 9 of m and 1 of z are 129m1z
ShortForm(tiles) ==
    SuitRun(tiles, 0) \o SuitRun(tiles, 1) \o SuitRun(tiles, 2) \o SuitRun(tiles, 3)

RECURSIVE MeldsForm(_)
MeldsForm(melds) ==
    IF melds = <<>> THEN <<>>
    ELSE <<" ">> \o ShortForm(melds[1]) \o MeldsForm(Tail(melds))

\* the canonical string of a concealed group, called melds and a drawn tile
CanonicalText(concealed, melds, drawn) ==
    ShortForm(concealed) \o MeldsForm(melds)
    \o (IF drawn = <<>> THEN <<>> ELSE <<" ">> \o ShortForm(drawn))

ShortInit ==
    /\ hand = <<>>
    /\ by_form = NotAnalysed
    /\ analyzer = <<>>
    /\ before = <<>>
    /\ status = Status_new
    /\ settings = Settings_new
    /\ yaku = <<>>
    /\ score = <<>>
    /\ fu = <<>>
    /\ \E concealed \in ConcealedGroups, melds \in MeldLists,
          drawn \in {<<>>} \cup {<<t>> : t \in ShortTiles} :
           call = <<CanonicalText(concealed, melds, drawn)>>
    /\ ret = <<>>

\* Hand::from(s)
FromText ==
    /\ call # <<>>
    /\ hand = <<>>
    /\ hand' = Hand_from(call[1])
    /\ UNCHANGED <<by_form, analyzer, before, status, settings, yaku, score, fu, call, ret>>

\* hand.to_short_string()
ToShortString ==
    /\ hand # <<>>
    /\ ret = <<>>
    /\ ret' = <<to_short_string(hand)>>
    /\ UNCHANGED <<hand, by_form, analyzer, before, status, settings, yaku, score, fu, call>>

ShortNext ==
    \/ FromText
    \/ ToShortString

ShortSpec == ShortInit /\ [][ShortNext]_vars

(***************************************************************************)
(* HandAnalyzer::new with the search of the Normal form in view: the       *)
(* locals of calc_normal_form at the end of the search are kept beside the *)
(* analyses.                                                               *)
(***************************************************************************)
\* 1199m1199p1199s1z 2z: six pairs that no run joins and two lone honors
SixPairsText ==
    <<"1", "1", "9", "9", "m", "1", "1", "9", "9", "p", "1", "1", "9", "9", "s", "1", "z", " ", "2", "z">>

SearchInit ==
    /\ \/ \E k \in 1..NumHands : hand = Hand_from(HandTexts[k])
       \/ hand = Hand_from(SixPairsText)
    /\ by_form = NotAnalysed
    /\ analyzer = <<>>
    /\ before = <<>>
    /\ status = Status_new
    /\ settings = Settings_new
    /\ yaku = <<>>
    /\ score = <<>>
    /\ fu = <<>>
    /\ call = <<>>
    /\ ret = <<>>

\* HandAnalyzer::new(&hand)
AnalyzeWithLocals ==
    /\ analyzer = <<>>
    /\ ret = <<>>
    /\ ret' = <<NormalSearch(hand)>>
    /\ by_form' = [f \in Forms |-> <<new_by_form(hand, f)>>]
    /\ analyzer' = <<SelectForm(by_form'["SevenPairs"][1],
                                by_form'["ThirteenOrphans"][1],
                                by_form'["Normal"][1])>>
    /\ UNCHANGED <<hand, before, status, settings, yaku, score, fu, call>>

\* the caller draws before it has the hand analysed
DrawFirst(t) ==
    /\ ret = <<>>
    /\ Draw(t)

SearchNext ==
    \/ AnalyzeWithLocals
    \/ \E t \in TileType : DrawFirst(t)

SearchSpec == SearchInit /\ [][SearchNext]_vars

\* The call of HandAnalyzer::new is not put off for ever: weak fairness of
\* AnalyzeWithLocals, with ENABLED <<AnalyzeWithLocals>>_vars written out as
\* the guard of the action (the step always changes ret).
SearchLiveSpec ==
    /\ SearchSpec
    /\ \/ []<>~(analyzer = <<>> /\ ret = <<>>)
       \/ []<><<AnalyzeWithLocals>>_vars

(***************************************************************************)
(* is_two_sided_wait called on its own, with a winning tile and the counts *)
(* of a hand that holds some of the four tiles next to it.                 *)
(***************************************************************************)
\* the most copies the counts hold of a tile
MaxCount == 1

\* the tiles at most two away from a tile
Near(tile) == {i \in TileType : i # tile /\ i >= tile - 2 /\ i <= tile + 2}

WaitInit ==
    /\ hand = Hand_from(ScoreTexts[1])
    /\ by_form = NotAnalysed
    /\ analyzer = <<>>
    /\ before = <<>>
    /\ status = Status_new
    /\ settings = Settings_new
    /\ yaku = <<>>
    /\ score = <<>>
    /\ fu = <<>>
    /\ \E tile \in TileType :
           \E near \in [Near(tile) -> 0..MaxCount] :
               call = <<[tile |-> tile,
                         counts |-> [i \in TileType |->
                                        IF i \in Near(tile) THEN near[i] ELSE 0]]>>
    /\ ret = <<>>

\* is_two_sided_wait(tile, &counts)
IsTwoSidedWait ==
    /\ call # <<>>
    /\ ret = <<>>
    /\ ret' = <<is_two_sided_wait(call[1].tile, call[1].counts)>>
    /\ UNCHANGED <<hand, by_form, analyzer, before, status, settings, yaku, score, fu, call>>

WaitNext == IsTwoSidedWait

WaitSpec == WaitInit /\ [][WaitNext]_vars

(***************************************************************************)
(* Properties of the analyses                                               *)
(***************************************************************************)
\* the number of tiles the summary of the hand counts
Total == SumOf(summarize_tiles(hand))

\* how many of the tiles of a list of blocks are tile i
CountInBlocks(blocks, i) ==
    Cardinality({m \in (1..Len(blocks)) \X (1..3) :
                    m[2] <= Len(blocks[m[1]]) /\ blocks[m[1]][m[2]] = i})

\* the multiset-union of the blocks and the singles of an analysis
BlockSummary(a) ==
    [i \in TileType |-> CountInBlocks(a.same3, i) + CountInBlocks(a.sequential3, i)
                        + CountInBlocks(a.same2, i) + CountInBlocks(a.sequential2, i)
                        + CountIn(a.single, i)]

\* C1: whenever the Normal-form analysis of a 14-tile hand reports shanten
\* -1, the decomposition it returns has exactly four 3-blocks, exactly one
\* pair in same2, no partial and no single.
NormalWinIsFourBlocksAndPair ==
    (by_form["Normal"] # <<>> /\ Total = 14 /\ by_form["Normal"][1].shanten = -1)
    => /\ Len(by_form["Normal"][1].same3) + Len(by_form["Normal"][1].sequential3) = 4
       /\ Len(by_form["Normal"][1].same2) = 1
       /\ by_form["Normal"][1].sequential2 = <<>>
       /\ by_form["Normal"][1].single = <<>>

\* C2: the blocks and singles the Normal-form analysis returns, the
\* independently peeled ones included, add up to the summary of the hand
\* tile for tile.
BlocksCoverSummary ==
    by_form["Normal"] # <<>>
    => BlockSummary(by_form["Normal"][1]) = summarize_tiles(hand)

\* C2 happens: an analysis with peeled and searched blocks and singles
BlocksCoverSummaryWitness ==
    /\ by_form["Normal"] # <<>>
    /\ by_form["Normal"][1].same3 # <<>>
    /\ by_form["Normal"][1].sequential3 # <<>>
    /\ by_form["Normal"][1].same2 # <<>>
    /\ by_form["Normal"][1].single # <<>>
    /\ BlockSummary(by_form["Normal"][1]) = summarize_tiles(hand)

\* the summary without the tiles of the sequence dec
Without(t, dec) == [j \in TileType |-> t[j] - CountIn(dec, j)] @@ <<>>

\* the summary holds the tiles of dec, which stay within one suit
Fits(t, dec) ==
    /\ \A k \in 1..Len(dec) : dec[k] <= Z7 /\ t[dec[k]] >= CountIn(dec, dec[k])
    /\ dec[Len(dec)] # dec[1] => (dec[1] < Z1 /\ SuitOf(dec[Len(dec)]) = SuitOf(dec[1]))

\* the greatest element of a non-empty set of integers
Greatest(S) == CHOOSE x \in S : \A y \in S : y <= x

RECURSIVE RefBest(_)
\* The unpruned reference: the greatest 2 * #3-blocks + #2-blocks over all
\* the decompositions of t into disjoint triplets, runs, pairs, partials and
\* left-over tiles.  A copy of the lowest tile held is a left-over tile or
\* the lowest tile of a block.
RefBest(t) ==
    IF NextHeld(t, M1) >= LEN THEN 0
    ELSE Greatest({RefBest(Without(t, b.dec)) + b.val :
            b \in {c \in {[dec |-> <<NextHeld(t, M1)>>, val |-> 0],
                          [dec |-> <<NextHeld(t, M1), NextHeld(t, M1)>>, val |-> 1],
                          [dec |-> <<NextHeld(t, M1), NextHeld(t, M1) + 1>>, val |-> 1],
                          [dec |-> <<NextHeld(t, M1), NextHeld(t, M1) + 2>>, val |-> 1],
                          [dec |-> <<NextHeld(t, M1), NextHeld(t, M1),
                                     NextHeld(t, M1)>>, val |-> 2],
                          [dec |-> <<NextHeld(t, M1), NextHeld(t, M1) + 1,
                                     NextHeld(t, M1) + 2>>, val |-> 2]} :
                      Fits(t, c.dec)}})

\* C3: the shanten of the Normal-form search of a 13- or 14-tile hand is the
\* least 8 - 2 * #3-blocks - #2-blocks over all decompositions, as the
\* unpruned reference computes it.
NormalShantenIsReferenceMinimum ==
    (by_form["Normal"] # <<>> /\ Total \in {13, 14})
    => by_form["Normal"][1].shanten = 8 - RefBest(summarize_tiles(hand))

\* C4: HandAnalyzer::new returns the Normal analysis if its shanten is -1,
\* even when the SevenPairs shanten is -1 too; otherwise one of the three
\* analyses, of the least shanten among them.
NewChoosesForm ==
    analyzer # <<>>
    => IF by_form["Normal"][1].shanten = -1
       THEN analyzer[1] = by_form["Normal"][1] /\ analyzer[1].form = "Normal"
       ELSE /\ \E f \in Forms : analyzer[1] = by_form[f][1]
            /\ \A f \in Forms : analyzer[1].shanten <= by_form[f][1].shanten

\* C4 happens: SevenPairs and Normal have both won, Normal is returned
NewChoosesFormWitness ==
    /\ analyzer # <<>>
    /\ by_form["SevenPairs"][1].shanten = -1
    /\ by_form["Normal"][1].shanten = -1
    /\ analyzer[1].form = "Normal"

\* C5: the shanten HandAnalyzer::new returns for a 13- or 14-tile hand lies
\* in -1..8.
ShantenInRange ==
    (analyzer # <<>> /\ Total \in {13, 14}) => analyzer[1].shanten \in -1..8

\* C5 happens: a won hand, at the lower end of the range
ShantenInRangeWitness ==
    /\ analyzer # <<>>
    /\ Total = 14
    /\ analyzer[1].shanten = -1

\* C6: the shanten HandAnalyzer::new returns for a 13-tile hand plus a tile
\* it holds fewer than four times differs by at most 1 from the shanten of
\* the 13-tile hand.
DrawMovesShantenByAtMostOne ==
    (analyzer # <<>> /\ before # <<>>)
    => (analyzer[1].shanten - before[1]) \in -1..1

Kinds(t) == Cardinality({i \in TileType : t[i] > 0})
Pairs(t) == Cardinality({i \in TileType : t[i] >= 2})

\* n tile types: n - 1 held twice and one held four times
IsPairsPlusQuad(t, n) ==
    /\ Kinds(t) = n
    /\ Cardinality({i \in TileType : t[i] = 4}) = 1
    /\ Cardinality({i \in TileType : t[i] = 2}) = n - 1

SevenPairsFormula(t) ==
    (7 - Pairs(t)) + (IF 7 - Kinds(t) > 0 THEN 7 - Kinds(t) ELSE 0) - 1

\* C7, as amended: the SevenPairs shanten is (7 - pair) + max(0, 7 - kind)
\* - 1, kind the tile types held and pair those held twice or more; a tile
\* type held four times is one pair, so six tile types made of five pairs
\* plus a quad are shanten 1.
SevenPairsShantenFivePairsAndQuad ==
    by_form["SevenPairs"] # <<>>
    => /\ by_form["SevenPairs"][1].shanten = SevenPairsFormula(summarize_tiles(hand))
       /\ IsPairsPlusQuad(summarize_tiles(hand), 6)
          => by_form["SevenPairs"][1].shanten = 1

\* C7 happens: five pairs plus a quad analysed
SevenPairsShantenWitness ==
    /\ by_form["SevenPairs"] # <<>>
    /\ IsPairsPlusQuad(summarize_tiles(hand), 6)
    /\ by_form["SevenPairs"][1].shanten = 1

\* C7, as stated: the same formula, and seven tile types made of six pairs
\* plus a quad are shanten 1.
SevenPairsShantenSixPairsAndQuad ==
    by_form["SevenPairs"] # <<>>
    => /\ by_form["SevenPairs"][1].shanten = SevenPairsFormula(summarize_tiles(hand))
       /\ IsPairsPlusQuad(summarize_tiles(hand), 7)
          => by_form["SevenPairs"][1].shanten = 1

\* the 13 terminal and honor tile types
Orphans == {i \in TileType : i >= Z1 \/ NumOf(i) = 0 \/ NumOf(i) = 8}

IsOrphan(x) == x \in Orphans

\* the hand without its concealed and drawn tiles outside the 13 types
OrphansOnly(h) ==
    Hand_new_with_opened(SelectSeq(h.tiles, IsOrphan), h.opened,
                         SelectSeq(h.drawn, IsOrphan))

\* C8: the ThirteenOrphans shanten is (14 - kind - (1 if one of the 13
\* terminal and honor types is held twice or more, else 0)) - 1, kind the
\* number of the 13 types held; the tiles outside the 13 types do not
\* change it.
ThirteenOrphansShanten ==
    by_form["ThirteenOrphans"] # <<>>
    => /\ by_form["ThirteenOrphans"][1].shanten
            = (14 - Cardinality({i \in Orphans : summarize_tiles(hand)[i] > 0})
                  - (IF \E i \in Orphans : summarize_tiles(hand)[i] >= 2
                     THEN 1 ELSE 0)) - 1
       /\ by_form["ThirteenOrphans"][1].shanten
            = new_by_form(OrphansOnly(hand), "ThirteenOrphans").shanten

\* C8 happens: twelve of the 13 types, one of them twice, and a tile
\* outside them
ThirteenOrphansShantenWitness ==
    /\ by_form["ThirteenOrphans"] # <<>>
    /\ \E i \in TileType \ Orphans : summarize_tiles(hand)[i] > 0
    /\ \E i \in Orphans : summarize_tiles(hand)[i] >= 2
    /\ by_form["ThirteenOrphans"][1].shanten = 0

\* the called melds of the hand of one of the categories
NumMelds(categories) ==
    Cardinality({k \in 1..Len(hand.opened) : hand.opened[k].category \in categories})

\* C9: the counts of summarize_tiles add up to the concealed tiles plus 3
\* for every Pon and Chi plus 4 for every Kan plus 1 for the drawn tile.
SummaryCountsFourPerKan ==
    Total = Len(hand.tiles) + 3 * NumMelds({"Pon", "Chi"})
            + 4 * NumMelds({"Kan"}) + Len(hand.drawn)

(***************************************************************************)
(* Properties of checker::check                                            *)
(***************************************************************************)
\* C10: when checker::check ran on an analysis whose shanten is not -1,
\* whatever Status and Settings it was given, every yaku kind of the result
\* map has matched = false and han = 0: the map holds no matched entry.
NoYakuUnlessWon ==
    (yaku # <<>> /\ analyzer[1].shanten # -1) =>
        /\ DOMAIN yaku[1] = Kind
        /\ \A k \in Kind : ~yaku[1][k].matched /\ yaku[1][k].han = 0

\* check ran on a ready hand (shanten 0) for a caller that claimed ready,
\* picked the tile itself and reports four kans, and matched nothing
NoYakuUnlessWonWitness ==
    /\ yaku # <<>>
    /\ analyzer[1].shanten = 0
    /\ status.has_claimed_ready
    /\ status.is_self_picked
    /\ status.kan_count = 4
    /\ \A k \in Kind : ~yaku[1][k].matched

(***************************************************************************)
(* Properties of calculate_score and calculate_fu                          *)
(***************************************************************************)
\* the ScoreResult of the last calculate_score, when it returned one
Scored == score # <<>> /\ score[1].value # None

Result == score[1].value[1]

\* C11: in the yaku list calculate_score got from extract_yaku_list, if any
\* entry has han >= 13 then every entry has han >= 13, so that the han the
\* result sums holds no han of a yaku that is not a yakuman.
YakumanExclusive ==
    Scored =>
        LET yaku_list == Result.yaku_list
        IN (\E i \in 1..Len(yaku_list) : yaku_list[i][2] >= 13) =>
               /\ \A i \in 1..Len(yaku_list) : yaku_list[i][2] >= 13
               /\ Result.han = SumHan(yaku_list, 1)

\* a yakuman is listed while check also matched a yaku of fewer than 13 han
YakumanExclusiveWitness ==
    /\ Scored
    /\ \E i \in 1..Len(Result.yaku_list) : Result.yaku_list[i][2] >= 13
    /\ \E k \in Kind :
           LET r == check(analyzer[1], status, settings)[k]
           IN r.matched /\ r.han > 0 /\ r.han < 13

\* the yaku list of the last calculate_score, empty when it returned None
YakuList == IF score[1].value = None THEN <<>> ELSE Result.yaku_list

\* the kinds a result map has to list: matched with han > 0, and of 13 han or
\* more when any matched kind is
ToList(yaku_result) ==
    LET yakuman == {k \in Kind : yaku_result[k].matched /\ yaku_result[k].han >= 13}
    IN {k \in Kind : /\ yaku_result[k].matched
                     /\ yaku_result[k].han > 0
                     /\ (yakuman # {} => k \in yakuman)}

\* name a is before name b in the order of str: a is a proper prefix of b, or
\* holds the smaller character at the first place they differ
NameBefore(a, b) ==
    \E i \in 1..Len(b) :
        /\ \A j \in 1..(i - 1) : j <= Len(a) /\ a[j] = b[j]
        /\ (i > Len(a) \/ (i <= Len(a) /\ a[i] < b[i]))

\* the kinds of a result map in the order a map of the given seed hands them out
HandedOut(yaku_result, seed) ==
    LET Listed(k) == k \in ToList(yaku_result)
    IN SelectSeq(IterOrder(seed), Listed)

\* C12: the yaku list of calculate_score holds exactly the entries of the
\* result map of check with matched = true and han > 0 that the yakuman rule
\* keeps, one per kind, ordered by descending han and, among equal han, by
\* ascending name; and it is the list extract_yaku_list gives for every
\* iteration order of the map.
YakuListSortedAndOrderFree ==
    score # <<>> =>
        LET yaku_result == check(analyzer[1], status, settings)
            kinds == ToList(yaku_result)
        IN /\ {YakuList[i] : i \in 1..Len(YakuList)} =
                  {<<yaku_result[k].name, yaku_result[k].han>> : k \in kinds}
           /\ Len(YakuList) = Cardinality(kinds)
           /\ \A i \in 1..Len(YakuList), j \in 1..Len(YakuList) :
                  i < j =>
                      \/ YakuList[i][2] > YakuList[j][2]
                      \/ /\ YakuList[i][2] = YakuList[j][2]
                         /\ NameBefore(YakuList[i][1], YakuList[j][1])
           /\ \A seed \in 1..NumSeeds :
                  extract_yaku_list(yaku_result, IterOrder(seed)) = YakuList

\* a list of three or more yaku, two of them of equal han and two of them of
\* different han, whose kinds two maps hand out in different orders
YakuListSortedWitness ==
    /\ Scored
    /\ Len(YakuList) >= 3
    /\ \E i \in 1..(Len(YakuList) - 1) : YakuList[i][2] = YakuList[i + 1][2]
    /\ \E i \in 1..(Len(YakuList) - 1) : YakuList[i][2] > YakuList[i + 1][2]
    /\ LET yaku_result == check(analyzer[1], status, settings)
       IN HandedOut(yaku_result, 1) # HandedOut(yaku_result, 2)

\* C13: calculate_score returns Ok, never an Err; it returns Ok(None) exactly
\* when the yaku list extract_yaku_list gives for the result map of check is
\* empty, which is when check matched no yaku of han > 0; otherwise it
\* returns Ok(Some(result)) whose list is not empty and whose han is the sum
\* of the han listed.
NoneIffNoYaku ==
    score # <<>> =>
        LET yaku_result == check(analyzer[1], status, settings)
            matched == {k \in Kind : yaku_result[k].matched /\ yaku_result[k].han > 0}
        IN /\ score[1].ok
           /\ score[1].value = None <=>
                  extract_yaku_list(yaku_result, IterOrder(1)) = <<>>
           /\ score[1].value = None <=> matched = {}
           /\ score[1].value # None =>
                  /\ Len(score[1].value) = 1
                  /\ Result.yaku_list # <<>>
                  /\ Result.han = SumHan(Result.yaku_list, 1)

\* a complete hand on which check matched nothing: calculate_score returned
\* Ok(None)
NoneIffNoYakuWitness ==
    /\ score # <<>>
    /\ has_won(analyzer[1])
    /\ score[1].ok
    /\ score[1].value = None
    /\ \A k \in Kind : ~check(analyzer[1], status, settings)[k].matched

\* a hand with matched yaku of different han: calculate_score returned a
\* result whose han is their sum
SomeWithSumWitness ==
    /\ Scored
    /\ Len(Result.yaku_list) >= 2
    /\ Result.yaku_list[1][2] > Result.yaku_list[2][2]
    /\ Result.han = SumHan(Result.yaku_list, 1)

(***************************************************************************)
(* Properties of determine_rank                                            *)
(***************************************************************************)
\* C14: determine_rank(han, fu, has_yakuman) is Yakuman when has_yakuman or
\* han >= 13; failing that Sanbaiman for han 11 and 12, Baiman for han 8 to
\* 10, Haneman for han 6 and 7, Mangan for han 5, for han 4 with fu >= 30
\* and for han 3 with fu >= 60; and Normal in every other case, han 4 with
\* fu 25 and han 3 with fu 50 among them.
RankTable ==
    ret # <<>> =>
        LET han == call[1].han
            total == call[1].fu
            yakuman == call[1].has_yakuman \/ han >= 13
            mangan == han = 5 \/ (han = 4 /\ total >= 30) \/ (han = 3 /\ total >= 60)
        IN /\ ret[1] = "Yakuman" <=> yakuman
           /\ ret[1] = "Sanbaiman" <=> (~yakuman /\ han \in {11, 12})
           /\ ret[1] = "Baiman" <=> (~yakuman /\ han \in {8, 9, 10})
           /\ ret[1] = "Haneman" <=> (~yakuman /\ han \in {6, 7})
           /\ ret[1] = "Mangan" <=> (~yakuman /\ mangan)
           /\ ret[1] = "Normal" <=>
                  (~yakuman /\ han < 6 /\ ~mangan)
           /\ (~yakuman /\ han = 4 /\ total = 25) => ret[1] = "Normal"
           /\ (~yakuman /\ han = 3 /\ total = 50) => ret[1] = "Normal"

\* four han and 25 fu without a yakuman ranked Normal
RankTableWitness ==
    /\ ret # <<>>
    /\ call[1].han = 4
    /\ call[1].fu = 25
    /\ ~call[1].has_yakuman
    /\ ret[1] = "Normal"

\* the base points calculate_score computed for its result
BasePoints == calculate_base_points(Result.han, Result.fu, Result.rank)

\* C15: for the han and the fu of every result of calculate_score the base
\* points are at most 8000, also when the han is the sum of several yakuman;
\* and when the rank is Normal the shift count han + 2 is below 32, the
\* product fu * 2^(han + 2) stays below 2^31, and the base points are the
\* smaller of that product and 2000.
BasePointsCapped ==
    Scored =>
        /\ Result.rank =
               determine_rank(Result.han, Result.fu,
                              \E i \in 1..Len(Result.yaku_list) :
                                  Result.yaku_list[i][2] >= 13)
        /\ BasePoints <= 8000
        /\ Result.non_dealer_tsumo_non_dealer <= 8000
        /\ Result.rank = "Normal" =>
               /\ Result.han + 2 < 31
               /\ Result.fu <= 2147483647 \div (2 ^ (Result.han + 2))
               /\ LET product == Result.fu * (2 ^ (Result.han + 2))
                  IN BasePoints = IF product < 2000 THEN product ELSE 2000

\* the han of several yakuman summed: the base points are 8000
BasePointsCappedWitness ==
    /\ Scored
    /\ Result.han >= 26
    /\ Len(Result.yaku_list) >= 2
    /\ Result.rank = "Yakuman"
    /\ BasePoints = 8000
    /\ Result.non_dealer_tsumo_non_dealer = 8000

\* a Normal rank whose base points are fu * 2^(han + 2)
BasePointsNormalWitness ==
    /\ Scored
    /\ Result.rank = "Normal"
    /\ Result.han = 3
    /\ BasePoints = Result.fu * 32

\* the least multiple of 100 that is not below n
Ceil100(n) == CHOOSE p \in n..(n + 99) : p % 100 = 0

\* C16: with B the base points of a result of calculate_score, dealer_ron is
\* 6B, dealer_tsumo_all 2B, non_dealer_ron 4B, non_dealer_tsumo_dealer 2B
\* and non_dealer_tsumo_non_dealer B, each rounded up to the next multiple
\* of 100: every payment is a multiple of 100, is not below its unrounded
\* value and is less than 100 above it.
PaymentsRoundedUp ==
    Scored =>
        LET B == BasePoints
            Paid(payment, times) ==
                /\ payment = Ceil100(times * B)
                /\ payment % 100 = 0
                /\ payment >= times * B
                /\ payment < times * B + 100
        IN /\ Paid(Result.dealer_ron, 6)
           /\ Paid(Result.dealer_tsumo_all, 2)
           /\ Paid(Result.non_dealer_ron, 4)
           /\ Paid(Result.non_dealer_tsumo_dealer, 2)
           /\ Paid(Result.non_dealer_tsumo_non_dealer, 1)

\* base points that are no multiple of 100 and whose double is below the
\* half of a hundred: each payment was rounded up
PaymentsRoundedUpWitness ==
    /\ Scored
    /\ BasePoints % 100 # 0
    /\ (2 * BasePoints) % 100 \in 1..49
    /\ Result.dealer_tsumo_all > 2 * BasePoints
    /\ Result.non_dealer_ron > 4 * BasePoints

\* the sum of the fu of the itemized details of the last calculate_fu
RawTotal ==
    LET details == fu[1].details
        Sum[k \in 0..Len(details)] ==
            IF k = 0 THEN 0 ELSE Sum[k - 1] + details[k].fu
    IN Sum[Len(details)]

\* the least multiple of 10 that is not below n
Ceil10(n) == CHOOSE p \in n..(n + 9) : p % 10 = 0

\* the last calculate_fu ran on a Normal-form analysis that is not a pinfu
\* won by self-pick
ItemizedFu ==
    /\ fu # <<>>
    /\ analyzer[1].form = "Normal"
    /\ ~(is_pinfu(analyzer[1], hand, status) /\ status.is_self_picked)

\* C17: for a Normal-form hand that is not a pinfu won by self-pick, the
\* total of calculate_fu is the sum of its itemized details rounded up to
\* the next multiple of 10, except that a sum of exactly 20 on a ron with
\* has_claimed_open gives 30; the total is a multiple of 10 either way.
FuTotalRoundedUp ==
    ItemizedFu =>
        /\ fu[1].details # <<>>
        /\ fu[1].details[1] = FuDetail("Fuutei", 20)
        /\ fu[1].total =
               IF RawTotal = 20 /\ ~status.is_self_picked /\ status.has_claimed_open
               THEN 30
               ELSE Ceil10(RawTotal)
        /\ fu[1].total % 10 = 0

\* a complete hand of four runs and a valueless pair, won by ron on a
\* two-sided wait with has_claimed_open: the details sum to 20, the total is 30
FuTotalOpenRonWitness ==
    /\ ItemizedFu
    /\ has_won(analyzer[1])
    /\ RawTotal = 20
    /\ ~status.is_self_picked
    /\ status.has_claimed_open
    /\ fu[1].total = 30

\* a sum of details that is no multiple of 10 was rounded up
FuTotalRoundedUpWitness ==
    /\ ItemizedFu
    /\ has_won(analyzer[1])
    /\ RawTotal % 10 # 0
    /\ fu[1].total = Ceil10(RawTotal)
    /\ fu[1].total > RawTotal

\* the analysis is a Normal form without has_claimed_open, of four runs and
\* a pair that is no dragon, player-wind or round-wind tile, and the winning
\* tile is the low end of a run other than 789 or the high end of a run
\* other than 123
PinfuShape ==
    /\ analyzer[1].form = "Normal"
    /\ ~status.has_claimed_open
    /\ Len(analyzer[1].sequential3) = 4
    /\ Len(analyzer[1].same2) = 1
    /\ analyzer[1].same2[1][1] \notin
           {Z5, Z6, Z7, WindTile(status.player_wind), WindTile(status.prevailing_wind)}
    /\ hand.drawn # <<>>
    /\ \E k \in 1..4 :
           LET run == analyzer[1].sequential3[k]
           IN \/ hand.drawn[1] = run[1] /\ NumOf(run[1]) + 1 # 7
              \/ hand.drawn[1] = run[3] /\ NumOf(run[3]) + 1 # 3

\* calculate_fu returned the flat 20 with a single detail exactly for a
\* self-picked win of that shape
FlatTwentyIffPinfuTsumo ==
    fu # <<>> =>
        ((fu[1].total = 20 /\ Len(fu[1].details) = 1)
             <=> (PinfuShape /\ status.is_self_picked))

\* C18: calculate_fu returns the flat total 20 with a single detail exactly
\* when the hand is a Normal form without open melds, of four runs and a
\* pair that is no dragon, player-wind or round-wind tile, the winning tile
\* is an end tile of a run on a two-sided wait (not the 3 of 123, not the 7
\* of 789) and the win is self-picked; and the same hand won by ron has the
\* total 30.
PinfuTsumoTwentyRonThirty ==
    fu # <<>> =>
        /\ (fu[1].total = 20 /\ Len(fu[1].details) = 1)
               <=> (PinfuShape /\ status.is_self_picked)
        /\ (PinfuShape /\ ~status.is_self_picked) => fu[1].total = 30

\* that shape won by self-pick on 34456m456p678s99s 5m: the flat 20
PinfuTsumoWitness ==
    /\ fu # <<>>
    /\ PinfuShape
    /\ status.is_self_picked
    /\ fu[1] = FuResult(20, <<FuDetail("PinfuTsumo", 20)>>)
    /\ \E k \in 1..4 : analyzer[1].sequential3[k][2] = hand.drawn[1]

\* the same hand and Status but for is_self_picked: a total other than 30
PinfuRonNotThirty ==
    /\ fu # <<>>
    /\ PinfuShape
    /\ ~status.is_self_picked
    /\ fu[1].total = 40
    /\ \E k \in 1..Len(fu[1].details) : fu[1].details[k] = FuDetail("KanchanMachi", 2)

(***************************************************************************)
(* Properties of the yaku predicates                                       *)
(***************************************************************************)
\* the entry of the result map of check for a kind, on the analysis, the
\* Status and the Settings of the last calculate_score
Checked(kind) == check(analyzer[1], status, settings)[kind]

\* C19: the No-Points predicate matches only a concealed hand of exactly
\* four runs and one pair, the pair no dragon, player-wind or round-wind
\* tile, whose winning tile completes a two-sided wait; a four-run hand won
\* on a closed, edge or single-tile wait is not matched.
NoPointsNeedsTwoSidedWait ==
    (score # <<>> /\ Checked("NoPointsHand").matched) =>
        /\ has_won(analyzer[1])
        /\ PinfuShape

\* No-Points matched, with one han, on 1399m456p234678s 2m: the winning 2m
\* is the middle tile of 123m and an end tile of no run
NoPointsOnClosedWait ==
    /\ score # <<>>
    /\ Checked("NoPointsHand") = [name |-> get("NoPointsHand", FALSE, settings.display_lang),
                                  matched |-> TRUE, han |-> 1]
    /\ Len(analyzer[1].sequential3) = 4
    /\ \E k \in 1..4 : analyzer[1].sequential3[k][2] = hand.drawn[1]
    /\ \A k \in 1..4 : /\ analyzer[1].sequential3[k][1] # hand.drawn[1]
                       /\ analyzer[1].sequential3[k][3] # hand.drawn[1]
    /\ analyzer[1].same2[1][1] # hand.drawn[1]

\* the tile types the concealed tiles and the winning tile hold three or
\* more of: the triplets that are no called meld are among them
ConcealedTriplets ==
    {t \in TileType : CountIn(hand.tiles, t) + CountIn(hand.drawn, t) >= 3}

\* C20: Three-Closed-Triplets matches only when three or more triplets of
\* the hand are concealed; the Pon and Kan groups of the hand text are not
\* counted, so that a win with three called Pons and no concealed triplet
\* does not match.
ThreeClosedTripletsAreConcealed ==
    (score # <<>> /\ Checked("ThreeClosedTriplets").matched) =>
        Cardinality(ConcealedTriplets) >= 3

\* Three-Closed-Triplets matched, with two han, on 123m5p 111z 222s 999p 5p:
\* the three triplets of same3 are the three called Pons
ThreeClosedTripletsOfPons ==
    /\ score # <<>>
    /\ has_won(analyzer[1])
    /\ Checked("ThreeClosedTriplets").matched
    /\ Checked("ThreeClosedTriplets").han = 2
    /\ NumMelds({"Pon"}) = 3
    /\ ConcealedTriplets = {}
    /\ Len(analyzer[1].same3) = 3
    /\ \A k \in 1..3 : analyzer[1].same3[k][1] \in OpenedTripletTiles(hand)

\* the tile types the hand holds: concealed, called or drawn
HeldTiles == {t \in TileType : summarize_tiles(hand)[t] > 0}

\* C21: All-Honors, All-Terminals and All-Green are each matched only if
\* every tile of the winning hand is of the yaku's tile set: honors; 1s and
\* 9s of the suits, without a run; S2, S3, S4, S6, S8 and Z6.  This holds for
\* every form, so that a thirteen-orphans win matches none of the three.
TileSetYakumanHoldOnlyTheirTiles ==
    yaku # <<>> =>
        /\ yaku[1]["AllHonors"].matched => \A t \in HeldTiles : t >= Z1
        /\ yaku[1]["AllTerminals"].matched =>
               /\ \A t \in HeldTiles : t \in {M1, M9, P1, P9, S1, S9}
               /\ analyzer[1].sequential3 = <<>>
        /\ yaku[1]["AllGreen"].matched =>
               \A t \in HeldTiles : t \in {S1 + 1, S1 + 2, S1 + 3, S1 + 5, S1 + 7, Z6}

\* check on the thirteen-orphans win 19m19p19s1234567z 1m matched
\* Thirteen-Orphans and, with 13 han each, the three tile-set yakuman too
ThirteenOrphansMatchesTileSetYakuman ==
    /\ yaku # <<>>
    /\ analyzer[1].form = "ThirteenOrphans"
    /\ has_won(analyzer[1])
    /\ yaku[1]["ThirteenOrphans"].matched
    /\ \A k \in {"AllHonors", "AllTerminals", "AllGreen"} :
           yaku[1][k].matched /\ yaku[1][k].han = 13
    /\ HeldTiles = {M1, M9, P1, P9, S1, S9} \cup (Z1..Z7)

(***************************************************************************)
(* Properties of the fu breakdown                                          *)
(***************************************************************************)
\* the details of the last calculate_fu that are triplets, in their order
TripletDetails ==
    LET IsTriplet(d) ==
            d.name \in {"YaochuuhaiAnkou", "ChunchanhaiAnkou",
                        "YaochuuhaiMinkou", "ChunchanhaiMinkou"}
    IN SelectSeq(fu[1].details, IsTriplet)

\* the tiles of the called Pons and Kans of the hand
CalledTripletTiles ==
    {hand.opened[k].tiles[1] : k \in {j \in 1..Len(hand.opened) :
                                          hand.opened[j].category # "Chi"}}

\* the triplets of same3 that are no called meld, and the called Pons
UncalledTriplets ==
    LET Uncalled(b) == b[1] \notin CalledTripletTiles
    IN SelectSeq(analyzer[1].same3, Uncalled)

CalledPons ==
    LET IsPon(o) == o.category = "Pon"
    IN SelectSeq(hand.opened, IsPon)

\* a 1, a 9 or an honor
IsYaochuu(t) == t >= Z1 \/ NumOf(t) + 1 \in {1, 9}

\* the win is by ron and the winning tile is t
RonOn(t) == ~status.is_self_picked /\ hand.drawn = <<t>>

\* C22: in the fu breakdown a triplet of same3 that is no called meld has
\* the open value (2 fu, 4 fu for a terminal or an honor) when the win is by
\* ron and its tile is the winning tile, and the concealed value (4 fu, 8 fu)
\* in every other case, every self-picked win among them; a called Pon has
\* 2 fu or 4 fu and is counted once, not again as a triplet of same3.
TripletFu ==
    (ItemizedFu /\ has_won(analyzer[1])) =>
        /\ Len(TripletDetails) = Len(UncalledTriplets) + Len(CalledPons)
        /\ \A k \in 1..Len(UncalledTriplets) :
               LET t == UncalledTriplets[k][1]
               IN TripletDetails[k].fu =
                      IF RonOn(t) THEN (IF IsYaochuu(t) THEN 4 ELSE 2)
                      ELSE (IF IsYaochuu(t) THEN 8 ELSE 4)
        /\ \A k \in 1..Len(CalledPons) :
               TripletDetails[Len(UncalledTriplets) + k].fu =
                   IF IsYaochuu(CalledPons[k].tiles[1]) THEN 4 ELSE 2

\* 22m11456s777z 999p 2m won by ron: 222m, completed by the winning tile,
\* has 2 fu, the concealed 777z has 8 fu and the called 999p has 4 fu once
TripletFuWitness ==
    /\ ItemizedFu
    /\ has_won(analyzer[1])
    /\ ~status.is_self_picked
    /\ Len(CalledPons) = 1
    /\ Len(analyzer[1].same3) = 3
    /\ [k \in 1..Len(TripletDetails) |-> TripletDetails[k].fu] \in
           {<<2, 8, 4>>, <<8, 2, 4>>}

\* the han of the six yaku that lose one han in an open hand, concealed
ConcealedHan ==
    ("ThreeColorStraight" :> 2) @@ ("Straight" :> 2)
    @@ ("TerminalOrHonorInEachSet" :> 2) @@ ("TerminalInEachSet" :> 3)
    @@ ("HalfFlush" :> 3) @@ ("Flush" :> 6)

\* the name of a kind in the language of the Settings, and its open suffix
PlainName(kind) ==
    IF settings.display_lang = "En" THEN NamesEn[kind] ELSE NamesJa[kind]

OpenSuffix == IF settings.display_lang = "En" THEN OpenSuffixEn ELSE OpenSuffixJa

\* C23: for the six yaku Three-Color-Straight, Straight,
\* Terminal-or-Honor-in-Each-Set, Terminal-in-Each-Set, Half-Flush and Flush
\* a matched result has han 2, 2, 2, 3, 3, 6 when has_claimed_open is false
\* and one han less when it is true, and the name ends in the open-hand
\* suffix exactly when has_claimed_open is true; the name of every other
\* yaku is the same for both values of has_claimed_open.
OpenHandHanAndName ==
    score # <<>> =>
        LET checked == check(analyzer[1], status, settings)
        IN  /\ DOMAIN ConcealedHan = OpennedNamed
            /\ \A kind \in DOMAIN ConcealedHan :
                   /\ checked[kind].matched =>
                          checked[kind].han =
                              IF status.has_claimed_open THEN ConcealedHan[kind] - 1
                              ELSE ConcealedHan[kind]
                   /\ checked[kind].name =
                          IF status.has_claimed_open THEN PlainName(kind) \o OpenSuffix
                          ELSE PlainName(kind)
            /\ \A kind \in Kind \ DOMAIN ConcealedHan :
                   /\ checked[kind].name = PlainName(kind)
                   /\ get(kind, TRUE, settings.display_lang) =
                          get(kind, FALSE, settings.display_lang)

\* an open Half-Flush with a Straight, named in English: 2 han and 1 han,
\* both names with " (Open)"
OpenHandHanAndNameWitness ==
    /\ score # <<>>
    /\ status.has_claimed_open
    /\ settings.display_lang = "En"
    /\ Checked("HalfFlush") = [name |-> NamesEn["HalfFlush"] \o OpenSuffixEn,
                               matched |-> TRUE, han |-> 2]
    /\ Checked("Straight") = [name |-> NamesEn["Straight"] \o OpenSuffixEn,
                              matched |-> TRUE, han |-> 1]

\* each of the six matched in some state, concealed and open
SixMatched(kind, open) ==
    /\ score # <<>>
    /\ status.has_claimed_open = open
    /\ Checked(kind).matched

\* the concealed-only group of check_1_han.rs (double ready included)
ConcealedOnlyGroup ==
    {"ReadyHand", "SelfPick", "OneShot", "LastTileFromTheWall", "LastDiscard",
     "DeadWallDraw", "RobbingAQuad", "DoubleReady", "NoPointsHand"}

\* C24: when has_claimed_open is true, none of Ready-Hand, Self-Pick,
\* One-Shot, Last-Tile-From-Wall, Last-Discard, Dead-Wall-Draw,
\* Robbing-a-Quad, Double-Ready and No-Points is matched, whatever the
\* other flags are.
ConcealedOnlyNeverMatchedOpen ==
    (yaku # <<>> /\ status.has_claimed_open) =>
        \A kind \in ConcealedOnlyGroup : ~yaku[1][kind].matched

\* an open win on the last discard is matched as Last-Discard
LastDiscardMatchedOpen ==
    /\ yaku # <<>>
    /\ status.has_claimed_open
    /\ status.is_last_discard
    /\ yaku[1]["LastDiscard"] = [name |-> get("LastDiscard", TRUE, settings.display_lang),
                                 matched |-> TRUE, han |-> 1]

\* the five of the group that test has_claimed_open are never matched open
TestedFiveNeverMatchedOpen ==
    (yaku # <<>> /\ status.has_claimed_open) =>
        \A kind \in {"ReadyHand", "SelfPick", "OneShot", "DoubleReady", "NoPointsHand"} :
            ~yaku[1][kind].matched

(***************************************************************************)
(* Properties of the short form of a Hand                                  *)
(***************************************************************************)
\* C25: for every hand string s in the canonical short form (a sorted
\* concealed group of one or more tiles, called melds of 3 or 4 tiles, an
\* optional drawn tile), Hand::from(s).to_short_string() completes and
\* returns s, and a Kan group of four tiles is stored as three tiles.
ShortStringRoundTrip ==
    ret # <<>> =>
        /\ ret[1] # Panic
        /\ ret[1] = call[1]
        /\ \A k \in 1..Len(hand.opened) : Len(hand.opened[k].tiles) = 3

\* a concealed group of one tile makes to_short_string panic
OneTileGroupPanics ==
    /\ ret = <<Panic>>
    /\ Len(hand.tiles) = 1

\* with two concealed tiles or more the string comes back, a Kan included
RoundTripFromTwoTiles ==
    (ret # <<>> /\ Len(hand.tiles) >= 2) =>
        /\ ret[1] = call[1]
        /\ \A k \in 1..Len(hand.opened) : Len(hand.opened[k].tiles) = 3

RoundTripWithKan ==
    /\ ret # <<>>
    /\ ret[1] = call[1]
    /\ Len(hand.tiles) >= 2
    /\ \E k \in 1..Len(hand.opened) : hand.opened[k].category = "Kan"

(***************************************************************************)
(* Properties of the search of the Normal form                             *)
(***************************************************************************)
\* C26: every call of count_normal_shanten_recursively, of
\* count_same_or_sequential_3 and of count_same_or_sequential_2 returns with
\* the summary and the four working lists same3, sequential3, same2 and
\* sequential2 equal to their values at its entry, so the search ends with
\* the locals it began with, and the analysis leaves the Hand as it was.
SearchRestoresFrame ==
    /\ [](ret # <<>> =>
             /\ ret[1].st.restored
             /\ SameFrame(ret[1].st, ret[1].entry)
             /\ ret[1].st.depth = 0)
    /\ [][analyzer' # analyzer /\ analyzer' # <<>> => hand' = hand]_vars

\* C30: HandAnalyzer::new returns for every hand of 14 tiles or fewer; every
\* call of count_normal_shanten_recursively is entered with at least two
\* tiles removed from the summary per call in progress above it, so no more
\* than 7 calls are nested below the first (and never 34).
SearchTerminates ==
    /\ [](ret # <<>> =>
             /\ ret[1].st.two_per_call
             /\ ret[1].st.total <= 14
             /\ 2 * (ret[1].st.max_depth - 1) <= ret[1].st.total
             /\ ret[1].st.max_depth - 1 <= 7)
    /\ <>(analyzer # <<>> /\ ret # <<>>)

\* a search of twelve tiles nested six calls below the first
SearchTerminatesWitness ==
    /\ analyzer # <<>>
    /\ ret # <<>>
    /\ ret[1].st.two_per_call
    /\ ret[1].st.total = 12
    /\ ret[1].st.max_depth - 1 = 6
    /\ ret[1].st.depth = 0

\* a search that went four calls deep, took blocks and found a win
SearchRestoresFrameWitness ==
    /\ ret # <<>>
    /\ ret[1].st.restored
    /\ ret[1].st.max_depth >= 4
    /\ ret[1].entry.same2 = <<>>
    /\ ret[1].st.same2_result # <<>>
    /\ ret[1].st.shanten_min = -1

(***************************************************************************)
(* Properties of is_two_sided_wait                                         *)
(***************************************************************************)
\* the number 1..9 of a suited tile
NumberOf(tile) == NumOf(tile) + 1

\* the two tiles of the suit directly below the tile, or directly above it,
\* are held
HeldBelow(tile, counts) ==
    NumberOf(tile) >= 3 /\ counts[tile - 1] > 0 /\ counts[tile - 2] > 0

HeldAbove(tile, counts) ==
    NumberOf(tile) <= 7 /\ counts[tile + 1] > 0 /\ counts[tile + 2] > 0

\* C27: is_two_sided_wait(tile, counts) is true exactly when the tile is
\* suited and counts holds the two tiles of its suit directly below it
\* (tile number 4..9, the partial not being 1-2) or directly above it (tile
\* number 1..6, the partial not being 8-9); it is false for honors and for
\* the edge waits 1-2 on 3 and 8-9 on 7, and it agrees with the two-sided
\* test of is_pinfu on the run the tile completes.
TwoSidedWaitExactly ==
    ret # <<>> =>
        LET tile == call[1].tile
            counts == call[1].counts
        IN /\ ret[1] =
                  /\ tile <= S9
                  /\ \/ NumberOf(tile) \in 4..9 /\ HeldBelow(tile, counts)
                     \/ NumberOf(tile) \in 1..6 /\ HeldAbove(tile, counts)
           /\ ret[1] =
                  /\ tile <= S9
                  /\ \/ HeldBelow(tile, counts)
                        /\ IsTwoSidedOn(tile, <<tile - 2, tile - 1, tile>>)
                     \/ HeldAbove(tile, counts)
                        /\ IsTwoSidedOn(tile, <<tile, tile + 1, tile + 2>>)

\* 7-8 held and the 9 of the suit: is_two_sided_wait says no, is_pinfu yes
NineOnSevenEightIsNotTwoSided ==
    /\ ret = <<FALSE>>
    /\ call[1].tile = M9
    /\ call[1].counts[M9 - 1] > 0
    /\ call[1].counts[M9 - 2] > 0
    /\ IsTwoSidedOn(M9, <<M9 - 2, M9 - 1, M9>>)

\* what the code computes: below only for 4..8, above only for 2..6
TwoSidedWaitInnerOnly ==
    ret # <<>> =>
        LET tile == call[1].tile
            counts == call[1].counts
        IN ret[1] =
               /\ tile <= S9
               /\ \/ NumberOf(tile) \in 4..8 /\ HeldBelow(tile, counts)
                  \/ NumberOf(tile) \in 2..6 /\ HeldAbove(tile, counts)

(***************************************************************************)
(* Properties of the SevenPairs analysis                                   *)
(***************************************************************************)
\* same2 is one pair per tile type held twice or more, in tile order
OnePairPerType(a, t) ==
    /\ \A k \in 1..Len(a.same2) :
           /\ a.same2[k][1] = a.same2[k][2]
           /\ t[a.same2[k][1]] >= 2
           /\ \A j \in 1..(k - 1) : a.same2[j][1] < a.same2[k][1]
    /\ Len(a.same2) = Cardinality({i \in TileType : t[i] >= 2})

\* C28: in the SevenPairs analysis same2 holds one pair per tile type held
\* twice or more and single holds exactly the tiles left over (count - 2 of
\* each paired type, count of each other type), so the pairs and the
\* singles together are the summary of the hand.
SevenPairsPairsAndLeftovers ==
    by_form["SevenPairs"] # <<>> =>
        LET a == by_form["SevenPairs"][1]
            t == summarize_tiles(hand)
        IN /\ OnePairPerType(a, t)
           /\ \A i \in TileType :
                  CountIn(a.single, i) = IF t[i] >= 2 THEN t[i] - 2 ELSE t[i]
           /\ \A i \in TileType :
                  CountInBlocks(a.same2, i) + CountIn(a.single, i) = t[i]

\* 1122m3344p5555s1z 1z: the two 5s left over are in single 22 times
LeftoverPushedIndexTimes ==
    /\ by_form["SevenPairs"] # <<>>
    /\ summarize_tiles(hand)[S1 + 4] = 4
    /\ CountIn(by_form["SevenPairs"][1].single, S1 + 4) = S1 + 4

\* the pairs alone are as stated
SevenPairsPairsOnly ==
    by_form["SevenPairs"] # <<>> =>
        OnePairPerType(by_form["SevenPairs"][1], summarize_tiles(hand))

(***************************************************************************)
(* Properties of the identical-sequences yaku                              *)
(***************************************************************************)
\* the names the yaku list of the result holds
ListedNames == {YakuList[i][1] : i \in 1..Len(YakuList)}

\* C29: whenever Two-Sets-of-Identical-Sequences is matched,
\* One-Set-of-Identical-Sequences is not in the yaku list of the result as
\* well, so that 112233m456456p77z with no other yaku has han 3, not 3 + 1.
TwoSetsExcludeOneSet ==
    score # <<>> =>
        LET checked == check(analyzer[1], status, settings)
        IN checked["TwoSetsOfIdenticalSequences"].matched =>
               /\ checked["OneSetOfIdenticalSequences"].name \notin ListedNames
               /\ {k \in Kind : checked[k].matched}
                      \subseteq {"TwoSetsOfIdenticalSequences",
                                 "OneSetOfIdenticalSequences"}
                  => Result.han = 3

\* 112233m456456p7z 7z by ron with no flag set: both are listed, han is 4
BothIdenticalSequencesListed ==
    /\ Scored
    /\ ~status.is_self_picked
    /\ Checked("TwoSetsOfIdenticalSequences").matched
    /\ YakuList = <<<<Checked("TwoSetsOfIdenticalSequences").name, 3>>,
                    <<Checked("OneSetOfIdenticalSequences").name, 1>>>>
    /\ Result.han = 4

=============================================================================
